---- MODULE Spec2Model ----
(***************************************************************************)
(* Cross-ledger approval-to-mint bridge.                                   *)
(*                                                                         *)
(*  - HouseTokenizingGovernance: the approval registry on the permissioned *)
(*    ledger (three role flags and the aggregated flag per houseId).       *)
(*  - HouseApproval circuit / Groth16 verifier: which proofs exist and     *)
(*    which the verifier accepts.                                          *)
(*  - HouseToken: the ERC-1155 mint gate on the public ledger.             *)
(*                                                                         *)
(* Every external call is one atomic step (the ledgers serialise           *)
(* transactions); a reverting call leaves the ledger state as it was and   *)
(* only its receipt (lastCall) shows that it happened. The receipt is      *)
(* handed to the sender (Return) before the next call is taken.            *)
(***************************************************************************)
EXTENDS Integers, Sequences, FiniteSets, TLC

\* ------------------------------------------------------------------ bounds

\* Number of house identifiers in play: houseIds are 1..NumHouses.
NumHouses == 2

\* Size of the field the circuit's signals live in (a small stand-in for the
\* BN254 scalar field): signals are 0..FieldSize-1, arithmetic is modulo it.
FieldSize == 5

HouseIds == 1..NumHouses

Signals == 0..(FieldSize - 1)

\* --------------------------------------------------------------- addresses

ZeroAddress == "0x0"

\* Externally owned accounts that send transactions to the registry.
GovCallers == {"validator1", "validator2", "validator3", "outsider"}

\* Accounts that send transactions to the mint gate.
MintCallers == {"relayer", "outsider"}

\* A contract whose onERC1155Received does not accept the token.
RejectingContract == "rejector"

\* A contract whose onERC1155Received calls mintHouseToken again for the
\* token it is being sent, catches a failure of that call and accepts.
ReenteringContract == "reenterer"

\* Recipients a mint submission may name.
Recipients == {"alice", "bob", ZeroAddress, RejectingContract}

\* The account that deployed HouseToken: Ownable's owner.
TokenOwner == "deployer"

\* Accounts that hold a token and move it with safeTransferFrom.
Holders == {"alice", "bob"}

\* Metadata URIs: the one of the deployment and a replacement.
Uris == {"ipfs://QmPlaceholderCID/{id}.json", "ipfs://QmOther/{id}.json"}

\* Accounts a balance is kept for: those a token is ever sent to.
Accounts == (Recipients \ {ZeroAddress}) \cup {ReenteringContract}

VARIABLES
    agent,          \* HouseTokenizingGovernance.agent        (immutable)
    bank,           \* HouseTokenizingGovernance.bank         (immutable)
    housingDept,    \* HouseTokenizingGovernance.housingDept  (immutable)
    approvals,      \* HouseTokenizingGovernance.approvals
    govLog,         \* events of the registry, per indexed houseId
    minted,         \* HouseToken.minted
    balances,       \* ERC1155 balances: balances[account][id]
    tokLog,         \* HouseTokenMinted events, per indexed houseId
    uri,            \* ERC1155 metadata URI
    lastCall,       \* receipt of the call that has just run, NoCall once returned
    witness,        \* input signals handed to the prover
    proofOut,       \* what the prover returned for them
    relayer,        \* relayer's per-houseId state (process-local)
    delivered,      \* HouseFullyApproved deliveries to the relayer, per houseId
    flow,           \* the test flow's wait for the mint: position, clock, deadline
    deployedJson,   \* relayer/.deployed.json: whether it exists, and its keys
    deployments,    \* the address each contract was last deployed at, the clock
    run             \* the test flow's main: position, approvals sent so far

govVars == <<agent, bank, housingDept, approvals, govLog>>

tokVars == <<minted, balances, tokLog, uri>>

zkVars == <<witness, proofOut>>

relVars == <<relayer, delivered>>

flowVars == <<flow>>

depVars == <<deployedJson, deployments>>

runVars == <<run>>

vars == <<agent, bank, housingDept, approvals, govLog,
          minted, balances, tokLog, uri, lastCall,
          witness, proofOut, relayer, delivered, flow,
          deployedJson, deployments, run>>

\* ------------------------------------------------------- approval registry

\* struct ApprovalState, all false for a houseId never written.
ApprovalState(a, b, h, f) ==
    [agentApproved |-> a, bankApproved |-> b,
     housingDeptApproved |-> h, fullyApproved |-> f]

NoApproval == ApprovalState(FALSE, FALSE, FALSE, FALSE)

HouseApproved(houseId, approver, role) ==
    [name |-> "HouseApproved", houseId |-> houseId,
     approver |-> approver, role |-> role]

HouseFullyApproved(houseId) ==
    [name |-> "HouseFullyApproved", houseId |-> houseId,
     approver |-> ZeroAddress, role |-> ""]

\* The storage and log a call works on, before it commits or reverts.
GovState(appr, log) == [approvals |-> appr, log |-> log]

\* Faulty variant of CheckFullApproval: the housing department's flag is left out of
\* the condition.
CheckFullApprovalDropsHousing(st, houseId) ==
    LET s == st.approvals[houseId] IN
    IF s.agentApproved /\ s.bankApproved /\ ~s.fullyApproved
    THEN GovState(
            [st.approvals EXCEPT ![houseId].fullyApproved = TRUE],
            [st.log EXCEPT ![houseId] = Append(@, HouseFullyApproved(houseId))])
    ELSE st

\* _checkFullApproval(houseId) applied to the working state st.
CheckFullApproval(st, houseId) ==
    LET s == st.approvals[houseId] IN
    IF s.agentApproved /\ s.bankApproved /\ s.housingDeptApproved
         /\ ~s.fullyApproved
    THEN GovState(
            [st.approvals EXCEPT ![houseId].fullyApproved = TRUE],
            [st.log EXCEPT ![houseId] = Append(@, HouseFullyApproved(houseId))])
    ELSE st

NoRet == <<>>

\* Receipt of a call: what was called with which arguments, the error it
\* reverted with ("" when it did not), what it returned, and the errors of the
\* calls made from within it ("" for one that succeeded).
Receipt(op, caller, houseId, args, err, ret) ==
    [op |-> op, caller |-> caller, houseId |-> houseId, args |-> args,
     err |-> err, ret |-> ret, inner |-> <<>>]

\* The further arguments of a call, beyond the caller and the houseId.
Args(pubSignal, proof, from, recipient, newUri) ==
    [pubSignal |-> pubSignal, proof |-> proof, from |-> from,
     recipient |-> recipient, newUri |-> newUri]

NoArgs == Args(0, [stmt |-> 0, sound |-> FALSE], ZeroAddress, ZeroAddress, "")

\* No call is waiting to be returned: the ledgers take the next one.
NoCall == Receipt("", ZeroAddress, 0, NoArgs, "", NoRet)

Ready == lastCall = NoCall

\* The receipt of the call that has just run goes back to its sender.
Return ==
    /\ lastCall # NoCall
    /\ lastCall' = NoCall
    /\ UNCHANGED <<agent, bank, housingDept, approvals, govLog,
                   minted, balances, tokLog, uri>>
    /\ UNCHANGED <<zkVars, relVars, flowVars, depVars, runVars>>

\* Receipt of a registry call.
GovReceipt(op, caller, houseId, err, ret) ==
    Receipt(op, caller, houseId, NoArgs, err, ret)

\* Faulty variant of the approve body: the already-approved require is missing.
ApproveBodyNoAlreadyCheck(caller, holder, houseId, flag, role, notRole, already) ==
    IF caller # holder THEN [err |-> notRole, st |-> GovState(approvals, govLog)]
    ELSE [err |-> "",
          st  |-> CheckFullApproval(
                    GovState(
                      [approvals EXCEPT ![houseId][flag] = TRUE],
                      [govLog EXCEPT ![houseId] =
                          Append(@, HouseApproved(houseId, caller, role))]),
                    houseId)]

\* Faulty variant of the approve body: the whole struct is written, not one field.
ApproveBodyOverwritesStruct(caller, holder, houseId, flag, role, notRole, already) ==
    LET s == approvals[houseId] IN
    IF caller # holder THEN [err |-> notRole, st |-> GovState(approvals, govLog)]
    ELSE IF s[flag] THEN [err |-> already, st |-> GovState(approvals, govLog)]
    ELSE [err |-> "",
          st  |-> CheckFullApproval(
                    GovState(
                      [approvals EXCEPT ![houseId] = [NoApproval EXCEPT ![flag] = TRUE]],
                      [govLog EXCEPT ![houseId] =
                          Append(@, HouseApproved(houseId, caller, role))]),
                    houseId)]

\* Faulty variant of the approve body: the already-approved require runs before
\* the modifier's require.
ApproveBodyAlreadyFirst(caller, holder, houseId, flag, role, notRole, already) ==
    LET s == approvals[houseId] IN
    IF s[flag] THEN [err |-> already, st |-> GovState(approvals, govLog)]
    ELSE IF caller # holder THEN [err |-> notRole, st |-> GovState(approvals, govLog)]
    ELSE [err |-> "",
          st  |-> CheckFullApproval(
                    GovState(
                      [approvals EXCEPT ![houseId][flag] = TRUE],
                      [govLog EXCEPT ![houseId] =
                          Append(@, HouseApproved(houseId, caller, role))]),
                    houseId)]

\* Faulty variant of the approve body: the HouseApproved event is emitted twice.
ApproveBodyEmitsTwice(caller, holder, houseId, flag, role, notRole, already) ==
    LET s == approvals[houseId] IN
    IF caller # holder THEN [err |-> notRole, st |-> GovState(approvals, govLog)]
    ELSE IF s[flag] THEN [err |-> already, st |-> GovState(approvals, govLog)]
    ELSE [err |-> "",
          st  |-> CheckFullApproval(
                    GovState(
                      [approvals EXCEPT ![houseId][flag] = TRUE],
                      [govLog EXCEPT ![houseId] =
                          Append(Append(@, HouseApproved(houseId, caller, role)),
                                 HouseApproved(houseId, caller, role))]),
                    houseId)]

\* Faulty variant of the approve body: _checkFullApproval runs before the
\* HouseApproved event is emitted.
ApproveBodyChecksBeforeEmit(caller, holder, houseId, flag, role, notRole, already) ==
    LET s == approvals[houseId] IN
    IF caller # holder THEN [err |-> notRole, st |-> GovState(approvals, govLog)]
    ELSE IF s[flag] THEN [err |-> already, st |-> GovState(approvals, govLog)]
    ELSE LET st1 == CheckFullApproval(
                       GovState([approvals EXCEPT ![houseId][flag] = TRUE], govLog),
                       houseId)
         IN  [err |-> "",
              st  |-> GovState(
                        st1.approvals,
                        [st1.log EXCEPT ![houseId] =
                            Append(@, HouseApproved(houseId, caller, role))])]

\* Faulty variant of the approve body: the role's flag is set for every houseId.
ApproveBodySetsEveryHouse(caller, holder, houseId, flag, role, notRole, already) ==
    LET s == approvals[houseId] IN
    IF caller # holder THEN [err |-> notRole, st |-> GovState(approvals, govLog)]
    ELSE IF s[flag] THEN [err |-> already, st |-> GovState(approvals, govLog)]
    ELSE [err |-> "",
          st  |-> CheckFullApproval(
                    GovState(
                      [h \in HouseIds |-> [approvals[h] EXCEPT ![flag] = TRUE]],
                      [govLog EXCEPT ![houseId] =
                          Append(@, HouseApproved(houseId, caller, role))]),
                    houseId)]

\* Body of approveAs<Role>: the modifier's require, the already-approved
\* require, the flag write, the HouseApproved event, _checkFullApproval.
\* Returns the error ("" when none) and the state to commit.
ApproveBody(caller, holder, houseId, flag, role, notRole, already) ==
    LET s == approvals[houseId] IN
    IF caller # holder THEN [err |-> notRole, st |-> GovState(approvals, govLog)]
    ELSE IF s[flag] THEN [err |-> already, st |-> GovState(approvals, govLog)]
    ELSE [err |-> "",
          st  |-> CheckFullApproval(
                    GovState(
                      [approvals EXCEPT ![houseId][flag] = TRUE],
                      [govLog EXCEPT ![houseId] =
                          Append(@, HouseApproved(houseId, caller, role))]),
                    houseId)]

\* Faulty variant of approveAsHousingDept: _checkFullApproval is not called.
ApproveAsHousingDeptBodySkipsCheck(caller, houseId) ==
    LET s == approvals[houseId] IN
    IF caller # housingDept
    THEN [err |-> "Not HousingDept", st |-> GovState(approvals, govLog)]
    ELSE IF s.housingDeptApproved
    THEN [err |-> "HousingDept already approved", st |-> GovState(approvals, govLog)]
    ELSE [err |-> "",
          st  |-> GovState(
                    [approvals EXCEPT ![houseId].housingDeptApproved = TRUE],
                    [govLog EXCEPT ![houseId] =
                        Append(@, HouseApproved(houseId, caller, "HousingDept"))])]

ApproveAsAgentBody(caller, houseId) ==
    ApproveBody(caller, agent, houseId, "agentApproved", "Agent",
                "Not Agent", "Agent already approved")

\* Faulty variant of approveAsBank: it carries the onlyAgent modifier.
ApproveAsBankBodyWrongModifier(caller, houseId) ==
    ApproveBody(caller, agent, houseId, "bankApproved", "Bank",
                "Not Agent", "Bank already approved")

ApproveAsBankBody(caller, houseId) ==
    ApproveBody(caller, bank, houseId, "bankApproved", "Bank",
                "Not Bank", "Bank already approved")

ApproveAsHousingDeptBody(caller, houseId) ==
    ApproveBody(caller, housingDept, houseId, "housingDeptApproved",
                "HousingDept", "Not HousingDept", "HousingDept already approved")

\* Faulty variant of the registry transaction: a successful approveAsAgent
\* hands the agent role on to the zero address.
GovCommitReassignsRole(op, caller, houseId, r) ==
    /\ approvals' = r.st.approvals
    /\ govLog' = r.st.log
    /\ lastCall' = GovReceipt(op, caller, houseId, r.err, NoRet)
    /\ agent' = IF op = "approveAsAgent" /\ r.err = "" THEN ZeroAddress ELSE agent
    /\ UNCHANGED <<bank, housingDept>>
    /\ UNCHANGED tokVars

\* A registry transaction: commit the body's state, or revert to the old one.
GovCommit(op, caller, houseId, r) ==
    /\ approvals' = r.st.approvals
    /\ govLog' = r.st.log
    /\ lastCall' = GovReceipt(op, caller, houseId, r.err, NoRet)
    /\ UNCHANGED <<agent, bank, housingDept>>
    /\ UNCHANGED tokVars

approveAsAgent(caller, houseId) ==
    GovCommit("approveAsAgent", caller, houseId,
              ApproveAsAgentBody(caller, houseId))

approveAsBank(caller, houseId) ==
    GovCommit("approveAsBank", caller, houseId,
              ApproveAsBankBody(caller, houseId))

approveAsHousingDept(caller, houseId) ==
    GovCommit("approveAsHousingDept", caller, houseId,
              ApproveAsHousingDeptBody(caller, houseId))

\* Faulty variant of getApprovalState: the fourth value is computed from the
\* agent's and the bank's flags instead of being read.
GetApprovalStateRetFullFromTwo(houseId) ==
    LET s == approvals[houseId] IN
    <<s.agentApproved, s.bankApproved, s.housingDeptApproved,
      s.agentApproved /\ s.bankApproved>>

\* getApprovalState(houseId): a view call returning the four booleans.
GetApprovalStateRet(houseId) ==
    LET s == approvals[houseId] IN
    <<s.agentApproved, s.bankApproved, s.housingDeptApproved, s.fullyApproved>>

getApprovalState(caller, houseId) ==
    /\ lastCall' = GovReceipt("getApprovalState", caller, houseId, "",
                              GetApprovalStateRet(houseId))
    /\ UNCHANGED govVars
    /\ UNCHANGED tokVars

\* ------------------------------------------------------ circuit and proofs

\* A witness of the HouseApproval circuit: two private signals, one public.
Witnesses == [agentApproved : Signals, bankApproved : Signals, houseId : HouseIds]

FMul(x, y) == (x * y) % FieldSize

FSub(x, y) == (x - y + FieldSize) % FieldSize

\* Faulty variant of the circuit: the two boolean constraints are left out.
CircuitSatNoBooleanChecks(w) ==
    LET bothApproved == FMul(w.agentApproved, w.bankApproved)
        houseBound   == FMul(w.houseId % FieldSize, bothApproved)
    IN  /\ bothApproved = 1
        /\ FMul(houseBound, 0) = 0

\* Faulty variant of the circuit: houseId is constrained like an approval flag.
CircuitSatConstrainsHouseId(w) ==
    LET agentCheck   == FMul(w.agentApproved, FSub(w.agentApproved, 1))
        bankCheck    == FMul(w.bankApproved, FSub(w.bankApproved, 1))
        bothApproved == FMul(w.agentApproved, w.bankApproved)
        houseBound   == FMul(w.houseId % FieldSize, bothApproved)
    IN  /\ agentCheck = 0
        /\ bankCheck = 0
        /\ bothApproved = 1
        /\ FMul(houseBound, FSub(houseBound, 1)) = 0

\* The constraints of template HouseApproval, in the order of the source.
CircuitSat(w) ==
    LET agentCheck   == FMul(w.agentApproved, FSub(w.agentApproved, 1))
        bankCheck    == FMul(w.bankApproved, FSub(w.bankApproved, 1))
        bothApproved == FMul(w.agentApproved, w.bankApproved)
        houseBound   == FMul(w.houseId % FieldSize, bothApproved)
    IN  /\ agentCheck = 0
        /\ bankCheck = 0
        /\ bothApproved = 1
        /\ FMul(houseBound, 0) = 0

\* A proof object (pA, pB, pC): the statement (public signal) it was made
\* for, and whether the prover made it from a satisfying witness.
Proof(stmt, sound) == [stmt |-> stmt, sound |-> sound]

\* Bytes that no run of the prover produced.
ForgedProof == Proof(0, FALSE)

\* snarkjs.groth16.fullProve: a proof and its public signals when the
\* witness satisfies the circuit, a failure otherwise.
fullProve(w) ==
    IF CircuitSat(w)
    THEN [ok |-> TRUE, proof |-> Proof(w.houseId, TRUE), pubSignals |-> <<w.houseId>>]
    ELSE [ok |-> FALSE, proof |-> ForgedProof, pubSignals |-> <<w.houseId>>]

\* Every proof a submitter can hold: the outputs of the prover over all
\* witnesses (the proving key is a build artifact), and made-up bytes.
SubmittableProofs ==
    {fullProve(w).proof : w \in {x \in Witnesses : fullProve(x).ok}}
        \cup {ForgedProof}

\* Groth16Verifier.verifyProof: accepts exactly the prover's proofs, against
\* the public signal they were made for.
verifyProof(proof, pubSignals) ==
    proof.sound /\ proof.stmt = pubSignals[1]

\* ---------------------------------------------------------------- mint gate

\* keccak256(abi.encode(_pA, _pB, _pC)): a digest of the proof points only.
Keccak256(proof) == <<"keccak256", proof.stmt, proof.sound>>

HouseTokenMinted(houseId, recipient, proofHash) ==
    [name |-> "HouseTokenMinted", houseId |-> houseId,
     recipient |-> recipient, proofHash |-> proofHash]

\* The storage and log a mint call works on, before it commits or reverts,
\* and the errors of the calls made from within it so far.
TokState(m, bal, log) ==
    [minted |-> m, balances |-> bal, log |-> log, inner |-> <<>>]

\* mintHouseToken entered again from the recipient's onERC1155Received, on
\* the working state of the call that is delivering the token: the same
\* guards, flag, mint and event; the callback of this second delivery
\* accepts without calling again.
NestedMint(st, houseId, proof, pubSignals, recipient) ==
    IF st.minted[houseId] THEN [err |-> "AlreadyMinted", st |-> st]
    ELSE IF pubSignals[1] # houseId
    THEN [err |-> "HouseToken: houseId mismatch", st |-> st]
    ELSE IF ~verifyProof(proof, pubSignals)
    THEN [err |-> "InvalidProof", st |-> st]
    ELSE [err |-> "",
          st  |-> [st EXCEPT !.minted[houseId] = TRUE,
                             !.balances[recipient][houseId] = @ + 1,
                             !.log[houseId] =
                                 Append(@, HouseTokenMinted(houseId, recipient,
                                                            Keccak256(proof)))]]

\* ERC1155._mint(to, id, value, ""): rejects the zero address, credits the
\* balance, then asks a contract recipient to accept (a refusal reverts).
\* The re-entering contract submits, from its callback, the proof the
\* verifier accepts for id, naming itself; a failure of that call is caught
\* and undoes only that call.
ERC1155Mint(st, to, id, value) ==
    IF to = ZeroAddress THEN [err |-> "ERC1155InvalidReceiver", st |-> st]
    ELSE LET credited == [st EXCEPT !.balances[to][id] = @ + value] IN
         IF to = RejectingContract
         THEN [err |-> "ERC1155InvalidReceiver", st |-> credited]
         ELSE IF to = ReenteringContract
         THEN LET n == NestedMint(credited, id, Proof(id, TRUE), <<id>>, to)
                  after == IF n.err = "" THEN n.st ELSE credited
              IN  [err |-> "", st |-> [after EXCEPT !.inner = Append(@, n.err)]]
         ELSE [err |-> "", st |-> credited]

\* Faulty variant of mintHouseToken: minted[houseId] is never set.
MintBodyKeepsFlag(caller, houseId, proof, pubSignals, recipient) ==
    LET st0 == TokState(minted, balances, tokLog) IN
    IF minted[houseId] THEN [err |-> "AlreadyMinted", st |-> st0]
    ELSE IF pubSignals[1] # houseId
    THEN [err |-> "HouseToken: houseId mismatch", st |-> st0]
    ELSE IF ~verifyProof(proof, pubSignals)
    THEN [err |-> "InvalidProof", st |-> st0]
    ELSE LET st1 == st0
             m   == ERC1155Mint(st1, recipient, houseId, 1)
         IN  IF m.err # "" THEN m
             ELSE [err |-> "",
                   st  |-> [m.st EXCEPT !.log[houseId] =
                              Append(@, HouseTokenMinted(houseId, recipient,
                                                         Keccak256(proof)))]]

\* Faulty variant of mintHouseToken: the public signal is not compared to houseId.
MintBodyNoBinding(caller, houseId, proof, pubSignals, recipient) ==
    LET st0 == TokState(minted, balances, tokLog) IN
    IF minted[houseId] THEN [err |-> "AlreadyMinted", st |-> st0]
    ELSE IF ~verifyProof(proof, pubSignals)
    THEN [err |-> "InvalidProof", st |-> st0]
    ELSE LET st1 == [st0 EXCEPT !.minted[houseId] = TRUE]
             m   == ERC1155Mint(st1, recipient, houseId, 1)
         IN  IF m.err # "" THEN m
             ELSE [err |-> "",
                   st  |-> [m.st EXCEPT !.log[houseId] =
                              Append(@, HouseTokenMinted(houseId, recipient,
                                                         Keccak256(proof)))]]

\* Faulty variant of mintHouseToken: the verifier's answer is not looked at.
MintBodyNoVerify(caller, houseId, proof, pubSignals, recipient) ==
    LET st0 == TokState(minted, balances, tokLog) IN
    IF minted[houseId] THEN [err |-> "AlreadyMinted", st |-> st0]
    ELSE IF pubSignals[1] # houseId
    THEN [err |-> "HouseToken: houseId mismatch", st |-> st0]
    ELSE LET st1 == [st0 EXCEPT !.minted[houseId] = TRUE]
             m   == ERC1155Mint(st1, recipient, houseId, 1)
         IN  IF m.err # "" THEN m
             ELSE [err |-> "",
                   st  |-> [m.st EXCEPT !.log[houseId] =
                              Append(@, HouseTokenMinted(houseId, recipient,
                                                         Keccak256(proof)))]]

\* Faulty variant of mintHouseToken: the verifier is called before the public
\* signal is compared to houseId.
MintBodyVerifiesFirst(caller, houseId, proof, pubSignals, recipient) ==
    LET st0 == TokState(minted, balances, tokLog) IN
    IF minted[houseId] THEN [err |-> "AlreadyMinted", st |-> st0]
    ELSE IF ~verifyProof(proof, pubSignals)
    THEN [err |-> "InvalidProof", st |-> st0]
    ELSE IF pubSignals[1] # houseId
    THEN [err |-> "HouseToken: houseId mismatch", st |-> st0]
    ELSE LET st1 == [st0 EXCEPT !.minted[houseId] = TRUE]
             m   == ERC1155Mint(st1, recipient, houseId, 1)
         IN  IF m.err # "" THEN m
             ELSE [err |-> "",
                   st  |-> [m.st EXCEPT !.log[houseId] =
                              Append(@, HouseTokenMinted(houseId, recipient,
                                                         Keccak256(proof)))]]

\* Faulty variant of mintHouseToken: the flag write replaces the whole mapping.
MintBodyResetsOthers(caller, houseId, proof, pubSignals, recipient) ==
    LET st0 == TokState(minted, balances, tokLog) IN
    IF minted[houseId] THEN [err |-> "AlreadyMinted", st |-> st0]
    ELSE IF pubSignals[1] # houseId
    THEN [err |-> "HouseToken: houseId mismatch", st |-> st0]
    ELSE IF ~verifyProof(proof, pubSignals)
    THEN [err |-> "InvalidProof", st |-> st0]
    ELSE LET st1 == [st0 EXCEPT !.minted = [h \in HouseIds |-> h = houseId]]
             m   == ERC1155Mint(st1, recipient, houseId, 1)
         IN  IF m.err # "" THEN m
             ELSE [err |-> "",
                   st  |-> [m.st EXCEPT !.log[houseId] =
                              Append(@, HouseTokenMinted(houseId, recipient,
                                                         Keccak256(proof)))]]

\* Faulty variant of mintHouseToken: _mint is called with amount 2.
MintBodyMintsTwo(caller, houseId, proof, pubSignals, recipient) ==
    LET st0 == TokState(minted, balances, tokLog) IN
    IF minted[houseId] THEN [err |-> "AlreadyMinted", st |-> st0]
    ELSE IF pubSignals[1] # houseId
    THEN [err |-> "HouseToken: houseId mismatch", st |-> st0]
    ELSE IF ~verifyProof(proof, pubSignals)
    THEN [err |-> "InvalidProof", st |-> st0]
    ELSE LET st1 == [st0 EXCEPT !.minted[houseId] = TRUE]
             m   == ERC1155Mint(st1, recipient, houseId, 2)
         IN  IF m.err # "" THEN m
             ELSE [err |-> "",
                   st  |-> [m.st EXCEPT !.log[houseId] =
                              Append(@, HouseTokenMinted(houseId, recipient,
                                                         Keccak256(proof)))]]

\* Faulty variant of mintHouseToken: the AlreadyMinted guard is left out.
MintBodyNoAlreadyMintedGuard(caller, houseId, proof, pubSignals, recipient) ==
    LET st0 == TokState(minted, balances, tokLog) IN
    IF pubSignals[1] # houseId
    THEN [err |-> "HouseToken: houseId mismatch", st |-> st0]
    ELSE IF ~verifyProof(proof, pubSignals)
    THEN [err |-> "InvalidProof", st |-> st0]
    ELSE LET st1 == [st0 EXCEPT !.minted[houseId] = TRUE]
             m   == ERC1155Mint(st1, recipient, houseId, 1)
         IN  IF m.err # "" THEN m
             ELSE [err |-> "",
                   st  |-> [m.st EXCEPT !.log[houseId] =
                              Append(@, HouseTokenMinted(houseId, recipient,
                                                         Keccak256(proof)))]]

\* Faulty variant of mintHouseToken: the public signal is compared to houseId
\* before the one-time mint guard.
MintBodyMismatchFirst(caller, houseId, proof, pubSignals, recipient) ==
    LET st0 == TokState(minted, balances, tokLog) IN
    IF pubSignals[1] # houseId
    THEN [err |-> "HouseToken: houseId mismatch", st |-> st0]
    ELSE IF minted[houseId] THEN [err |-> "AlreadyMinted", st |-> st0]
    ELSE IF ~verifyProof(proof, pubSignals)
    THEN [err |-> "InvalidProof", st |-> st0]
    ELSE LET st1 == [st0 EXCEPT !.minted[houseId] = TRUE]
             m   == ERC1155Mint(st1, recipient, houseId, 1)
         IN  IF m.err # "" THEN m
             ELSE [err |-> "",
                   st  |-> [m.st EXCEPT !.log[houseId] =
                              Append(@, HouseTokenMinted(houseId, recipient,
                                                         Keccak256(proof)))]]

\* Faulty variant of mintHouseToken: minted[houseId] is set after the token is
\* delivered.
MintBodyFlagAfterMint(caller, houseId, proof, pubSignals, recipient) ==
    LET st0 == TokState(minted, balances, tokLog) IN
    IF minted[houseId] THEN [err |-> "AlreadyMinted", st |-> st0]
    ELSE IF pubSignals[1] # houseId
    THEN [err |-> "HouseToken: houseId mismatch", st |-> st0]
    ELSE IF ~verifyProof(proof, pubSignals)
    THEN [err |-> "InvalidProof", st |-> st0]
    ELSE LET m == ERC1155Mint(st0, recipient, houseId, 1)
         IN  IF m.err # "" THEN m
             ELSE [err |-> "",
                   st  |-> [m.st EXCEPT !.minted[houseId] = TRUE,
                                        !.log[houseId] =
                              Append(@, HouseTokenMinted(houseId, recipient,
                                                         Keccak256(proof)))]]

\* Faulty variant of mintHouseToken: only the recipient itself may submit.
MintBodyRecipientMustSubmit(caller, houseId, proof, pubSignals, recipient) ==
    LET st0 == TokState(minted, balances, tokLog) IN
    IF minted[houseId] THEN [err |-> "AlreadyMinted", st |-> st0]
    ELSE IF pubSignals[1] # houseId
    THEN [err |-> "HouseToken: houseId mismatch", st |-> st0]
    ELSE IF ~verifyProof(proof, pubSignals)
    THEN [err |-> "InvalidProof", st |-> st0]
    ELSE IF caller # recipient
    THEN [err |-> "HouseToken: not recipient", st |-> st0]
    ELSE LET st1 == [st0 EXCEPT !.minted[houseId] = TRUE]
             m   == ERC1155Mint(st1, recipient, houseId, 1)
         IN  IF m.err # "" THEN m
             ELSE [err |-> "",
                   st  |-> [m.st EXCEPT !.log[houseId] =
                              Append(@, HouseTokenMinted(houseId, recipient,
                                                         Keccak256(proof)))]]

\* Body of mintHouseToken: guards 1-3, then the flag, the mint and the event.
\* Returns the error ("" when none) and the working state it reached.
MintBody(caller, houseId, proof, pubSignals, recipient) ==
    LET st0 == TokState(minted, balances, tokLog) IN
    IF minted[houseId] THEN [err |-> "AlreadyMinted", st |-> st0]
    ELSE IF pubSignals[1] # houseId
    THEN [err |-> "HouseToken: houseId mismatch", st |-> st0]
    ELSE IF ~verifyProof(proof, pubSignals)
    THEN [err |-> "InvalidProof", st |-> st0]
    ELSE LET st1 == [st0 EXCEPT !.minted[houseId] = TRUE]
             m   == ERC1155Mint(st1, recipient, houseId, 1)
         IN  IF m.err # "" THEN m
             ELSE [err |-> "",
                   st  |-> [m.st EXCEPT !.log[houseId] =
                              Append(@, HouseTokenMinted(houseId, recipient,
                                                         Keccak256(proof)))]]

MintReceipt(caller, houseId, proof, pubSignals, recipient, err) ==
    Receipt("mintHouseToken", caller, houseId,
            Args(pubSignals[1], proof, ZeroAddress, recipient, ""), err, NoRet)

\* Faulty variant of a mint transaction: the writes a reverting body had
\* made are kept.
mintHouseTokenKeepsWrites(caller, houseId, proof, pubSignals, recipient) ==
    LET r == MintBody(caller, houseId, proof, pubSignals, recipient)
    IN  /\ minted' = r.st.minted
        /\ balances' = r.st.balances
        /\ tokLog' = r.st.log
        /\ lastCall' = MintReceipt(caller, houseId, proof, pubSignals,
                                   recipient, r.err)
        /\ UNCHANGED uri
        /\ UNCHANGED govVars

\* Faulty variant of a mint transaction: a revert restores the balances and the
\* log but not the minted flag.
mintHouseTokenRevertKeepsFlag(caller, houseId, proof, pubSignals, recipient) ==
    LET r == MintBody(caller, houseId, proof, pubSignals, recipient)
        committed == IF r.err = "" THEN r.st
                     ELSE TokState(r.st.minted, balances, tokLog)
    IN  /\ minted' = committed.minted
        /\ balances' = committed.balances
        /\ tokLog' = committed.log
        /\ lastCall' = MintReceipt(caller, houseId, proof, pubSignals,
                                   recipient, r.err)
        /\ UNCHANGED uri
        /\ UNCHANGED govVars

\* A mint transaction: a revert discards every write of the body.
mintHouseToken(caller, houseId, proof, pubSignals, recipient) ==
    LET r == MintBody(caller, houseId, proof, pubSignals, recipient)
        committed == IF r.err = "" THEN r.st
                     ELSE TokState(minted, balances, tokLog)
    IN  /\ minted' = committed.minted
        /\ balances' = committed.balances
        /\ tokLog' = committed.log
        /\ lastCall' = [MintReceipt(caller, houseId, proof, pubSignals,
                                    recipient, r.err)
                          EXCEPT !.inner = r.st.inner]
        /\ UNCHANGED uri
        /\ UNCHANGED govVars

\* setURI(newUri): onlyOwner, then _setURI.
SetURIBody(caller, newUri) ==
    IF caller # TokenOwner
    THEN [err |-> "OwnableUnauthorizedAccount", uri |-> uri]
    ELSE [err |-> "", uri |-> newUri]

setURI(caller, newUri) ==
    LET r == SetURIBody(caller, newUri) IN
    /\ uri' = r.uri
    /\ lastCall' = Receipt("setURI", caller, 0,
                           Args(0, NoArgs.proof, ZeroAddress, ZeroAddress, newUri),
                           r.err, NoRet)
    /\ UNCHANGED <<minted, balances, tokLog>>
    /\ UNCHANGED govVars

\* Faulty variant of safeTransferFrom: the sender's balance is not debited.
SafeTransferFromBodyNoDebit(caller, from, to, id, value) ==
    IF caller # from
    THEN [err |-> "ERC1155MissingApprovalForAll", balances |-> balances]
    ELSE IF to = ZeroAddress
    THEN [err |-> "ERC1155InvalidReceiver", balances |-> balances]
    ELSE IF balances[from][id] < value
    THEN [err |-> "ERC1155InsufficientBalance", balances |-> balances]
    ELSE LET moved == [balances EXCEPT ![to][id] = @ + value]
         IN  IF to = RejectingContract
             THEN [err |-> "ERC1155InvalidReceiver", balances |-> balances]
             ELSE [err |-> "", balances |-> moved]

\* ERC1155.safeTransferFrom(from, to, id, value, "") sent by caller: the
\* caller must be from (no operator is ever approved here), to must not be
\* the zero address, from must hold value, a contract recipient must accept.
SafeTransferFromBody(caller, from, to, id, value) ==
    IF caller # from
    THEN [err |-> "ERC1155MissingApprovalForAll", balances |-> balances]
    ELSE IF to = ZeroAddress
    THEN [err |-> "ERC1155InvalidReceiver", balances |-> balances]
    ELSE IF balances[from][id] < value
    THEN [err |-> "ERC1155InsufficientBalance", balances |-> balances]
    ELSE LET debited == [balances EXCEPT ![from][id] = @ - value]
             moved   == [debited EXCEPT ![to][id] = @ + value]
         IN  IF to = RejectingContract
             THEN [err |-> "ERC1155InvalidReceiver", balances |-> balances]
             ELSE [err |-> "", balances |-> moved]

safeTransferFrom(caller, from, to, id, value) ==
    LET r == SafeTransferFromBody(caller, from, to, id, value) IN
    /\ balances' = r.balances
    /\ lastCall' = Receipt("safeTransferFrom", caller, id,
                           Args(0, NoArgs.proof, from, to, ""), r.err, NoRet)
    /\ UNCHANGED <<minted, tokLog, uri>>
    /\ UNCHANGED govVars

\* ------------------------------------------------------------------ relayer

\* The houseId the bridge is run for end to end (HOUSE_ID of the test flow);
\* the relayer keeps its state per houseId and shares none between them.
BridgedHouses == {1}

\* How many times the registry's notification for one houseId reaches the
\* relayer (the transport is at-least-once).
MaxDeliveries == 2

\* Proof attempts per houseId before the failure is permanent.
RetryBudget == 2

\* NFT_RECIPIENT: the address the relayer names in its submissions.
RelayerRecipient == "bob"

\* The input signals generateProof passes to fullProve.
RelayerWitness(h) == [agentApproved |-> 1, bankApproved |-> 1, houseId |-> h]

NoProof == NoArgs.proof

\* Per-houseId state of the relayer: where it is in
\* Idle -> Notified -> Proving -> Submitting -> Confirming -> Confirmed (or
\* Failed, with the reason), the proof attempts so far, the proof and public
\* signals the prover gave it and what its isMinted read of this pass
\* returned.
RelayerState(state, reason, attempts, proof, pubSignals, isMinted) ==
    [state |-> state, reason |-> reason, attempts |-> attempts,
     proof |-> proof, pubSignals |-> pubSignals, isMinted |-> isMinted]

RelayerIdle == RelayerState("Idle", "", 0, NoProof, <<>>, "unread")

\* The registry has emitted HouseFullyApproved(h).
FullyApprovedEmitted(h) ==
    \E i \in 1..Len(govLog[h]) : govLog[h][i] = HouseFullyApproved(h)

\* Faulty variant of the notification handler: every delivery starts a pass.
OnFullyApprovedRestartsPass(rs) == [RelayerIdle EXCEPT !.state = "Notified"]

\* Handler of the registry's notification: Idle -> Notified, otherwise no-op.
OnFullyApproved(rs) ==
    IF rs.state = "Idle" THEN [rs EXCEPT !.state = "Notified"] ELSE rs

\* Faulty variant of Notified -> Proving: the relayer gives up before the
\* prover is called.
OnStartProvingGivesUp(rs) ==
    [rs EXCEPT !.state = "Failed", !.reason = "ProofGenerationFailed"]

\* Notified -> Proving: the prover is called.
OnStartProving(rs) == [rs EXCEPT !.state = "Proving"]

\* The prover returned a proof and its public signals: on to the submission.
OnProofReady(rs, r) ==
    [rs EXCEPT !.state = "Submitting", !.proof = r.proof,
               !.pubSignals = r.pubSignals, !.isMinted = "unread"]

\* Faulty variant of the failure handler: the budget is not looked at.
OnProofFailedRetriesOn(rs) == [rs EXCEPT !.attempts = @ + 1]

\* The prover failed: another attempt while the budget lasts, then Failed.
OnProofFailed(rs) ==
    IF rs.attempts + 1 >= RetryBudget
    THEN [rs EXCEPT !.state = "Failed", !.reason = "ProofGenerationFailed",
                    !.attempts = RetryBudget]
    ELSE [rs EXCEPT !.attempts = @ + 1]

\* Faulty variant of the isMinted read: the answer is taken to be false.
OnIsMintedReadIgnored(rs, isMinted) == [rs EXCEPT !.isMinted = "false"]

\* The isMinted read before a submission: a minted houseId is Confirmed and
\* nothing is sent.
OnIsMintedRead(rs, isMinted) ==
    IF isMinted
    THEN [rs EXCEPT !.state = "Confirmed", !.isMinted = "true"]
    ELSE [rs EXCEPT !.isMinted = "false"]

\* Faulty variant of the reaction to the gate's answer: AlreadyMinted is
\* taken for a failure like any other rejection.
OnSubmissionResultAlreadyMintedFails(rs, err) ==
    IF err = "" THEN [rs EXCEPT !.state = "Confirming"]
    ELSE [rs EXCEPT !.state = "Failed", !.reason = err]

\* Faulty variant of the reaction to the gate's answer: every answer is
\* taken for a success.
OnSubmissionResultConfirmsAll(rs, err) ==
    IF err = "" THEN [rs EXCEPT !.state = "Confirming"]
    ELSE [rs EXCEPT !.state = "Confirmed"]

\* The gate's answer to the submission: accepted -> Confirming, AlreadyMinted
\* -> Confirmed, any other rejection -> Failed.
OnSubmissionResult(rs, err) ==
    CASE err = "" -> [rs EXCEPT !.state = "Confirming"]
      [] err = "AlreadyMinted" -> [rs EXCEPT !.state = "Confirmed"]
      [] err = "InvalidProof" ->
            [rs EXCEPT !.state = "Failed", !.reason = "InvalidProof"]
      [] err = "HouseToken: houseId mismatch" ->
            [rs EXCEPT !.state = "Failed", !.reason = "PublicInputMismatch"]
      [] OTHER -> [rs EXCEPT !.state = "Failed", !.reason = err]

\* One confirmation poll: minted -> Confirmed; otherwise the next poll is
\* awaited.
OnPoll(rs, isMinted) ==
    IF isMinted THEN [rs EXCEPT !.state = "Confirmed"] ELSE rs

\* The timeout of the confirmation poll elapses with no poll having seen the
\* mint: Failed(MintNotObserved), which does not say that minting failed.
OnPollTimeout(rs) ==
    [rs EXCEPT !.state = "Failed", !.reason = "MintNotObserved"]

\* A relayer step touches neither ledger nor the prover session.
RelayerStepOnly ==
    UNCHANGED <<govVars, tokVars, lastCall, zkVars, flowVars, depVars, runVars>>

\* A delivery of HouseFullyApproved(h), the first or a repeated one.
Deliver(h) ==
    /\ Ready
    /\ FullyApprovedEmitted(h)
    /\ delivered[h] < MaxDeliveries
    /\ delivered' = [delivered EXCEPT ![h] = @ + 1]
    /\ relayer' = [relayer EXCEPT ![h] = OnFullyApproved(@)]
    /\ RelayerStepOnly

StartProving(h) ==
    /\ Ready
    /\ relayer[h].state = "Notified"
    /\ relayer' = [relayer EXCEPT ![h] = OnStartProving(@)]
    /\ UNCHANGED delivered
    /\ RelayerStepOnly

\* fullProve on the hardcoded witnesses, then the local verification.
ProveSucceeds(h) ==
    /\ Ready
    /\ relayer[h].state = "Proving"
    /\ LET r == fullProve(RelayerWitness(h)) IN
       /\ r.ok
       /\ verifyProof(r.proof, r.pubSignals)
       /\ relayer' = [relayer EXCEPT ![h] = OnProofReady(@, r)]
    /\ UNCHANGED delivered
    /\ RelayerStepOnly

\* What a prover gone wrong hands back for h: bytes that are no proof, or
\* the proof and public signals of another houseId (a mismatched pairing of
\* witness bundle and identifier).
WrongProverOutputs(h) ==
    {[ok |-> TRUE, proof |-> ForgedProof, pubSignals |-> <<h>>]}
        \cup {fullProve(RelayerWitness(k)) : k \in HouseIds \ {h}}

\* The prover answers with a wrong output, and the relayer, for which the
\* local verification is optional, takes it on to the submission.
ProveReturnsWrong(h) ==
    /\ Ready
    /\ relayer[h].state = "Proving"
    /\ \E r \in WrongProverOutputs(h) :
          relayer' = [relayer EXCEPT ![h] = OnProofReady(@, r)]
    /\ UNCHANGED delivered
    /\ RelayerStepOnly

\* The prover is unavailable for this attempt.
ProveFails(h) ==
    /\ Ready
    /\ relayer[h].state = "Proving"
    /\ relayer' = [relayer EXCEPT ![h] = OnProofFailed(@)]
    /\ UNCHANGED delivered
    /\ RelayerStepOnly

\* The read of isMinted(h) that precedes a submission.
CheckMinted(h) ==
    /\ Ready
    /\ relayer[h].state = "Submitting"
    /\ relayer[h].isMinted = "unread"
    /\ relayer' = [relayer EXCEPT ![h] = OnIsMintedRead(@, minted[h])]
    /\ UNCHANGED delivered
    /\ RelayerStepOnly

\* The submission: mintHouseToken(h, proof, pubSignals, recipient) from the
\* relayer's account, and the relayer's reaction to the gate's answer.
Submit(h) ==
    /\ Ready
    /\ relayer[h].state = "Submitting"
    /\ relayer[h].isMinted = "false"
    /\ mintHouseToken("relayer", h, relayer[h].proof, relayer[h].pubSignals,
                      RelayerRecipient)
    /\ relayer' = [relayer EXCEPT ![h] =
          OnSubmissionResult(@,
              MintBody("relayer", h, relayer[h].proof, relayer[h].pubSignals,
                       RelayerRecipient).err)]
    /\ UNCHANGED delivered
    /\ UNCHANGED <<zkVars, flowVars, depVars, runVars>>

Poll(h) ==
    /\ Ready
    /\ relayer[h].state = "Confirming"
    /\ relayer' = [relayer EXCEPT ![h] = OnPoll(@, minted[h])]
    /\ UNCHANGED delivered
    /\ RelayerStepOnly

\* The wait of the confirmation poll runs out before a poll has answered.
PollTimesOut(h) ==
    /\ Ready
    /\ relayer[h].state = "Confirming"
    /\ relayer' = [relayer EXCEPT ![h] = OnPollTimeout(@)]
    /\ UNCHANGED delivered
    /\ RelayerStepOnly

\* The relayer process crashes and starts again: its state is gone, the
\* notifications it is yet to be sent are not.
Restart ==
    /\ Ready
    /\ relayer # [h \in BridgedHouses |-> RelayerIdle]
    /\ relayer' = [h \in BridgedHouses |-> RelayerIdle]
    /\ UNCHANGED delivered
    /\ RelayerStepOnly

\* ----------------------------------------------------------- prover session

\* No fullProve has run on the current input signals.
NoProofOut == [ok |-> FALSE, proof |-> NoProof, pubSignals |-> <<>>]

\* ----------------------------------------------- test flow: waitForMint

\* HOUSE_ID of the test flow.
HOUSE_ID == CHOOSE h \in BridgedHouses : TRUE

\* The longest MINT_TIMEOUT a run is started with, in poll intervals (the
\* flow sleeps 2000 ms between two polls).
MaxTimeout == 2

\* By how many poll intervals a sleep may overshoot.
MaxOvershoot == 1

\* Addresses a contract deployment can land on.
NumAddresses == 3

\* Runs of the deploy scripts, the record's deployedAt being the run's number.
MaxDeployRuns == 3

\* Where waitForMint stands ("idle" before the call, "returned" or "thrown"
\* after it), the clock it reads and its deadline, in poll intervals.
FlowState(pc, now, deadline) == [pc |-> pc, now |-> now, deadline |-> deadline]

FlowIdle == FlowState("idle", 0, 0)

\* const deadline = Date.now() + timeoutMs
WaitStart ==
    /\ flow.pc = "idle"
    /\ \E timeout \in 0..MaxTimeout :
          flow' = FlowState("loop", flow.now, flow.now + timeout)

\* Faulty variant of the loop test: the deadline is not looked at.
WaitLoopTestNoDeadline ==
    /\ flow.pc = "loop"
    /\ flow.now <= MaxTimeout + MaxOvershoot
    /\ flow' = [flow EXCEPT !.pc = "poll"]

\* while (Date.now() < deadline) ... ; throw new Error("Mint not detected")
WaitLoopTest ==
    /\ flow.pc = "loop"
    /\ flow' = [flow EXCEPT !.pc =
          IF flow.now < flow.deadline THEN "poll" ELSE "thrown"]

\* balance = await houseToken.balanceOf(recipient, houseId);
\* if (balance > 0n) return
WaitPoll ==
    /\ flow.pc = "poll"
    /\ flow' = [flow EXCEPT !.pc =
          IF balances[RelayerRecipient][HOUSE_ID] > 0 THEN "returned"
          ELSE "sleep"]

\* await sleep(2000): at least one poll interval goes by.
WaitSleep ==
    /\ flow.pc = "sleep"
    /\ \E d \in 1..(1 + MaxOvershoot) :
          flow' = [flow EXCEPT !.pc = "loop", !.now = @ + d]

\* One step of waitForMint.
WaitStep ==
    /\ \/ WaitStart
       \/ WaitLoopTest
       \/ WaitPoll
       \/ WaitSleep
    /\ UNCHANGED <<govVars, tokVars, lastCall, zkVars, relVars, depVars, runVars>>

\* ------------------------------------------- deployment record and scripts

\* Addresses a deployment can land on.
ContractAddresses == 1..NumAddresses

\* QUORUM_RPC_URL and the network name the public deploy script writes.
QuorumRpcUrl == "http://127.0.0.1:8545"

PublicNetwork == "hardhat-localhost-8546"

EmptyJson == [k \in {} |-> 0]

\* No .deployed.json on disk.
NoRecord == [exists |-> FALSE, json |-> EmptyJson]

\* Nothing deployed yet.
NoDeployments == [governance |-> 0, verifier |-> 0, houseToken |-> 0, clock |-> 0]

\* fs.existsSync(outPath) ? JSON.parse(fs.readFileSync(outPath)) : {}
ReadRecord(file) == IF file.exists THEN file.json ELSE EmptyJson

\* Faulty variant of the public script's record: the existing keys are not spread in.
PublicRecordDropsExisting(existing, verifierAddress, houseTokenAddress, now) ==
    [k \in {"network", "verifier", "houseToken", "deployedAt"} |->
        CASE k = "network" -> PublicNetwork
          [] k = "verifier" -> verifierAddress
          [] k = "houseToken" -> houseTokenAddress
          [] k = "deployedAt" -> now]

\* deploy.ts: { ...existing, network, verifier, houseToken, deployedAt }
PublicRecord(existing, verifierAddress, houseTokenAddress, now) ==
    [k \in DOMAIN existing \cup {"network", "verifier", "houseToken", "deployedAt"} |->
        CASE k = "network" -> PublicNetwork
          [] k = "verifier" -> verifierAddress
          [] k = "houseToken" -> houseTokenAddress
          [] k = "deployedAt" -> now
          [] OTHER -> existing[k]]

\* deploy-governance.ts: deployed["governance"] = address;
\* deployed["quorumRpcUrl"] = rpc
GovernanceRecord(existing, address, rpc) ==
    [k \in DOMAIN existing \cup {"governance", "quorumRpcUrl"} |->
        CASE k = "governance" -> address
          [] k = "quorumRpcUrl" -> rpc
          [] OTHER -> existing[k]]

\* Both scripts leave the ledgers' model, the relayer and the test flow alone.
ScriptOnly ==
    UNCHANGED <<govVars, tokVars, lastCall, zkVars, relVars, flowVars, runVars>>

\* A run of deploy-governance.ts: deploy the registry, merge its address
\* into the record.
DeployGovernanceScript ==
    /\ deployments.clock < MaxDeployRuns
    /\ \E address \in ContractAddresses :
          /\ deployments' = [deployments EXCEPT !.governance = address,
                                                !.clock = @ + 1]
          /\ deployedJson' =
                [exists |-> TRUE,
                 json   |-> GovernanceRecord(ReadRecord(deployedJson), address,
                                             QuorumRpcUrl)]
    /\ ScriptOnly

\* A run of deploy.ts: deploy the verifier and the token, merge their
\* addresses into the record.
DeployPublicScript ==
    /\ deployments.clock < MaxDeployRuns
    /\ \E verifierAddress \in ContractAddresses,
          houseTokenAddress \in ContractAddresses :
          /\ verifierAddress # houseTokenAddress
          /\ deployments' = [deployments EXCEPT !.verifier = verifierAddress,
                                                !.houseToken = houseTokenAddress,
                                                !.clock = @ + 1]
          /\ deployedJson' =
                [exists |-> TRUE,
                 json   |-> PublicRecord(ReadRecord(deployedJson), verifierAddress,
                                         houseTokenAddress, deployments.clock + 1)]
    /\ ScriptOnly

\* ------------------------------------------------------- test flow: main

\* Where main stands and the approval transactions it has sent so far.
RunState(pc, sent, pending) == [pc |-> pc, sent |-> sent, pending |-> pending]

RunIdle == RunState("idle", <<>>, "")

\* The accounts of AGENT_PK, BANK_PK and HOUSING_PK.
AgentSigner == "validator1"

BankSigner == "validator2"

HousingSigner == "validator3"

\* The three approval steps of main, in the order of the source: the position
\* before the step, the function called, the signer, the position after it.
ApprovalSteps ==
    <<[pc |-> "agent", op |-> "approveAsAgent", signer |-> AgentSigner,
       next |-> "bank"],
      [pc |-> "bank", op |-> "approveAsBank", signer |-> BankSigner,
       next |-> "housing"],
      [pc |-> "housing", op |-> "approveAsHousingDept", signer |-> HousingSigner,
       next |-> "verify"]>>

\* Main changes nothing but its own position; the ledgers are only read.
RunStepOnly ==
    UNCHANGED <<govVars, tokVars, lastCall, zkVars, relVars, flowVars, depVars>>

\* Faulty variant of the idempotency check: minted(HOUSE_ID) is not read.
RunCheckMintedSkipped ==
    /\ run.pc = "idle"
    /\ Ready
    /\ run' = RunState("agent", <<>>, "")
    /\ RunStepOnly

\* const alreadyMinted = await houseToken.minted(HOUSE_ID); if so, the test
\* has passed and main returns.
RunCheckMinted ==
    /\ run.pc = "idle"
    /\ Ready
    /\ run' = RunState(IF minted[HOUSE_ID] THEN "passed" ELSE "agent", <<>>, "")
    /\ RunStepOnly

\* const tx = await gov.approveAs<Role>(HOUSE_ID): the transaction runs on
\* the registry; main holds on to its outcome.
RunSend ==
    /\ Ready
    /\ \E i \in 1..Len(ApprovalSteps) :
          LET step == ApprovalSteps[i] IN
          /\ run.pc = step.pc
          /\ CASE step.op = "approveAsAgent" -> approveAsAgent(step.signer, HOUSE_ID)
               [] step.op = "approveAsBank" -> approveAsBank(step.signer, HOUSE_ID)
               [] step.op = "approveAsHousingDept" ->
                      approveAsHousingDept(step.signer, HOUSE_ID)
          /\ run' = RunState(step.pc \o "Sent", Append(run.sent, step.op),
                             lastCall'.err)
    /\ UNCHANGED <<zkVars, relVars, flowVars, depVars>>

\* await tx.wait(): on to the next step once confirmed; a reverted
\* transaction throws and main fails.
RunConfirm ==
    /\ \E i \in 1..Len(ApprovalSteps) :
          LET step == ApprovalSteps[i] IN
          /\ run.pc = step.pc \o "Sent"
          /\ run' = [run EXCEPT !.pc = IF run.pending = "" THEN step.next
                                       ELSE "failed"]
    /\ RunStepOnly

\* const [ag, bk, hd, full] = await getApprovalState(HOUSE_ID);
\* if (!full) throw; otherwise main goes on to waitForMint.
RunVerify ==
    /\ run.pc = "verify"
    /\ Ready
    /\ LET full == GetApprovalStateRet(HOUSE_ID)[4] IN
       run' = [run EXCEPT !.pc = IF full THEN "waitForMint" ELSE "failed"]
    /\ RunStepOnly

\* The flow is run again after it has passed, failed or gone on to wait.
RunAgain ==
    /\ run.pc \in {"passed", "failed", "waitForMint"}
    /\ Ready
    /\ run' = RunIdle
    /\ RunStepOnly

\* ------------------------------------------------------------ specification

\* State after the two constructors have run, the registry's with the three
\* validator addresses of the deployment.
InitLedgers ==
    /\ agent = "validator1"
    /\ bank = "validator2"
    /\ housingDept = "validator3"
    /\ approvals = [h \in HouseIds |-> NoApproval]
    /\ govLog = [h \in HouseIds |-> <<>>]
    /\ minted = [h \in HouseIds |-> FALSE]
    /\ balances = [a \in Accounts |-> [h \in HouseIds |-> 0]]
    /\ tokLog = [h \in HouseIds |-> <<>>]
    /\ uri = "ipfs://QmPlaceholderCID/{id}.json"
    /\ lastCall = NoCall

\* The ledgers as deployed, the relayer just started, the prover idle.
Init ==
    /\ InitLedgers
    /\ relayer = [h \in BridgedHouses |-> RelayerIdle]
    /\ delivered = [h \in BridgedHouses |-> 0]
    /\ witness = RelayerWitness(1)
    /\ proofOut = NoProofOut
    /\ flow = FlowIdle
    /\ deployedJson = NoRecord
    /\ deployments = NoDeployments
    /\ run = RunIdle

ApproveAsAgent ==
    /\ Ready
    /\ \E c \in GovCallers, h \in HouseIds : approveAsAgent(c, h)
    /\ UNCHANGED <<zkVars, relVars, flowVars, depVars, runVars>>

ApproveAsBank ==
    /\ Ready
    /\ \E c \in GovCallers, h \in HouseIds : approveAsBank(c, h)
    /\ UNCHANGED <<zkVars, relVars, flowVars, depVars, runVars>>

ApproveAsHousingDept ==
    /\ Ready
    /\ \E c \in GovCallers, h \in HouseIds : approveAsHousingDept(c, h)
    /\ UNCHANGED <<zkVars, relVars, flowVars, depVars, runVars>>

GetApprovalState ==
    /\ Ready
    /\ \E c \in GovCallers, h \in HouseIds : getApprovalState(c, h)
    /\ UNCHANGED <<zkVars, relVars, flowVars, depVars, runVars>>

\* mintHouseToken is external and unguarded: any account may send it.
MintHouseTokenFrom(callers, recipients) ==
    /\ Ready
    /\ \E c \in callers, h \in HouseIds, p \in SubmittableProofs,
          s \in HouseIds, r \in recipients :
           mintHouseToken(c, h, p, <<s>>, r)
    /\ UNCHANGED <<zkVars, relVars, flowVars, depVars, runVars>>

MintHouseToken == MintHouseTokenFrom(MintCallers, Recipients)

\* A submission by an account that is neither a role holder nor the relayer.
OutsiderMints == MintHouseTokenFrom(MintCallers \ {"relayer"}, {"alice"})

GovNext ==
    \/ ApproveAsAgent
    \/ ApproveAsBank
    \/ ApproveAsHousingDept
    \/ GetApprovalState
    \/ Return

SetURI ==
    /\ Ready
    /\ \E c \in {TokenOwner, "outsider"}, u \in Uris : setURI(c, u)
    /\ UNCHANGED <<zkVars, relVars, flowVars, depVars, runVars>>

\* One unit at a time: no account ever holds more.
SafeTransferFrom ==
    /\ Ready
    /\ \E c \in Holders, f \in Holders, t \in Recipients, h \in HouseIds :
           safeTransferFrom(c, f, t, h, 1)
    /\ UNCHANGED <<zkVars, relVars, flowVars, depVars, runVars>>

TokNext ==
    \/ MintHouseToken
    \/ SetURI
    \/ SafeTransferFrom
    \/ Return

Next ==
    \/ ApproveAsAgent
    \/ ApproveAsBank
    \/ ApproveAsHousingDept
    \/ OutsiderMints
    \/ Return

\* The two ledgers together: the registry open to every caller, the mint gate
\* to a submitter outside the protocol.
Spec == Init /\ [][Next]_vars

\* The permissioned ledger alone.
SpecGov == Init /\ [][GovNext]_vars

\* The public ledger alone.
SpecTok == Init /\ [][TokNext]_vars

\* ------------------------------------------------ the prover, on any input

\* The caller of fullProve picks other input signals.
ChooseWitness ==
    /\ \E w \in Witnesses \ {witness} : witness' = w
    /\ proofOut' = NoProofOut
    /\ UNCHANGED <<govVars, tokVars, lastCall, relVars, flowVars, depVars, runVars>>

\* snarkjs.groth16.fullProve on the current input signals: a proof comes out
\* exactly when they satisfy the circuit's constraints.
FullProve ==
    /\ proofOut = NoProofOut
    /\ proofOut' = fullProve(witness)
    /\ UNCHANGED witness
    /\ UNCHANGED <<govVars, tokVars, lastCall, relVars, flowVars, depVars, runVars>>

CircuitNext ==
    \/ ChooseWitness
    \/ FullProve

\* The prover may be started on any input signals, boolean or not.
InitCircuit ==
    /\ InitLedgers
    /\ relayer = [h \in BridgedHouses |-> RelayerIdle]
    /\ delivered = [h \in BridgedHouses |-> 0]
    /\ witness \in Witnesses
    /\ proofOut = NoProofOut
    /\ flow = FlowIdle
    /\ deployedJson = NoRecord
    /\ deployments = NoDeployments
    /\ run = RunIdle

\* The circuit and its prover alone.
SpecCircuit == InitCircuit /\ [][CircuitNext]_vars

\* --------------------------------------- the bridge: ledgers and relayer

\* An approve call on the registry, from any account, for a bridged houseId.
RegistryCall ==
    /\ Ready
    /\ \E c \in GovCallers, h \in BridgedHouses :
          \/ approveAsAgent(c, h)
          \/ approveAsBank(c, h)
          \/ approveAsHousingDept(c, h)
    /\ UNCHANGED <<zkVars, relVars, flowVars, depVars, runVars>>

\* A mint submission for a bridged houseId by an account outside the
\* protocol, to itself, to the zero address or to a contract that refuses.
OutsiderSubmits ==
    /\ Ready
    /\ \E h \in BridgedHouses, p \in SubmittableProofs, s \in HouseIds,
          r \in {"alice", ZeroAddress, RejectingContract} :
           mintHouseToken("outsider", h, p, <<s>>, r)
    /\ UNCHANGED <<zkVars, relVars, flowVars, depVars, runVars>>

RelayerStep ==
    \E h \in BridgedHouses :
        \/ Deliver(h)
        \/ StartProving(h)
        \/ ProveSucceeds(h)
        \/ CheckMinted(h)
        \/ Submit(h)
        \/ Poll(h)

BridgeNext ==
    \/ RegistryCall
    \/ OutsiderSubmits
    \/ RelayerStep
    \/ \E h \in BridgedHouses : ProveFails(h)
    \/ \E h \in BridgedHouses : ProveReturnsWrong(h)
    \/ \E h \in BridgedHouses : PollTimesOut(h)
    \/ Restart
    \/ Return

\* Both ledgers and the relayer, with a prover that may fail or go wrong and a relayer
\* process that may crash and restart.
SpecBridge == Init /\ [][BridgeNext]_vars

LiveNext ==
    \/ RegistryCall
    \/ OutsiderSubmits
    \/ RelayerStep
    \/ Return

\* The relayer, the prover and both ledgers keep running: a call returns, and
\* a relayer step that can be taken again and again is taken.
Fairness ==
    /\ WF_vars(Return)
    /\ \A h \in BridgedHouses :
          /\ SF_vars(Deliver(h))
          /\ SF_vars(StartProving(h))
          /\ SF_vars(ProveSucceeds(h))
          /\ SF_vars(CheckMinted(h))
          /\ SF_vars(Submit(h))
          /\ SF_vars(Poll(h))

\* The bridge without permanent failures: the prover answers, the relayer
\* does not crash.
SpecLive == Init /\ [][LiveNext]_vars /\ Fairness

\* ------------------------------ the test flow's wait, on the public ledger

\* A submission for HOUSE_ID with the relayer's proof, naming the relayer's
\* recipient or another account.
HouseIdMinted ==
    /\ Ready
    /\ \E c \in MintCallers, r \in Holders :
          LET p == fullProve(RelayerWitness(HOUSE_ID)) IN
          mintHouseToken(c, HOUSE_ID, p.proof, p.pubSignals, r)
    /\ UNCHANGED <<zkVars, relVars, flowVars, depVars, runVars>>

\* The holder of the unit of HOUSE_ID sends it on.
HouseIdTransferred ==
    /\ Ready
    /\ \E f \in Holders, t \in Holders :
          safeTransferFrom(f, f, t, HOUSE_ID, 1)
    /\ UNCHANGED <<zkVars, relVars, flowVars, depVars, runVars>>

WaitNext ==
    \/ WaitStep
    \/ HouseIdMinted
    \/ HouseIdTransferred
    \/ Return

\* waitForMint beside a public ledger on which units are minted and moved;
\* the flow's process keeps running.
SpecWait == Init /\ [][WaitNext]_vars /\ WF_vars(WaitStep)

\* ------------------------------------------ the registry, however deployed

\* Addresses the deployment may pass to the constructor for the three roles.
DeployAddresses == {"validator1", "validator2", "validator3"}

\* The constructor stores its three arguments, whatever they are; everything
\* else starts as in Init.
InitDeploy ==
    /\ agent \in DeployAddresses
    /\ bank \in DeployAddresses
    /\ housingDept \in DeployAddresses
    /\ approvals = [h \in HouseIds |-> NoApproval]
    /\ govLog = [h \in HouseIds |-> <<>>]
    /\ minted = [h \in HouseIds |-> FALSE]
    /\ balances = [a \in Accounts |-> [h \in HouseIds |-> 0]]
    /\ tokLog = [h \in HouseIds |-> <<>>]
    /\ uri = "ipfs://QmPlaceholderCID/{id}.json"
    /\ lastCall = NoCall
    /\ relayer = [h \in BridgedHouses |-> RelayerIdle]
    /\ delivered = [h \in BridgedHouses |-> 0]
    /\ witness = RelayerWitness(1)
    /\ proofOut = NoProofOut
    /\ flow = FlowIdle
    /\ deployedJson = NoRecord
    /\ deployments = NoDeployments
    /\ run = RunIdle

DeployNext ==
    \/ RegistryCall
    \/ Return

\* The registry under any assignment of the roles.
SpecDeploy == InitDeploy /\ [][DeployNext]_vars

\* ------------------------------------- the mint gate and recipient contracts

\* A mint submission naming an account or a contract that calls back in.
MintHouseTokenToContract ==
    MintHouseTokenFrom(MintCallers, {"alice", ReenteringContract})

ReentryNext ==
    \/ MintHouseTokenToContract
    \/ Return

\* The public ledger with a recipient that re-enters mintHouseToken.
SpecReentry == Init /\ [][ReentryNext]_vars

\* ------------------------------------------------ the two deploy scripts

RecordNext ==
    \/ DeployGovernanceScript
    \/ DeployPublicScript

\* The deploy scripts run one after the other, in any order, any number of
\* times.
SpecRecord == Init /\ [][RecordNext]_vars

\* ------------------------------------- the test flow's main, on both ledgers

RunStep ==
    \/ RunCheckMinted
    \/ RunSend
    \/ RunConfirm
    \/ RunVerify
    \/ RunAgain

MainNext ==
    \/ RunStep
    \/ RegistryCall
    \/ HouseIdMinted
    \/ Return

\* Main, run any number of times, beside a registry other accounts call and
\* a public ledger on which HOUSE_ID gets minted.
SpecMain == Init /\ [][MainNext]_vars

\* ------------------------------------------------- vocabulary of the claims

ApproveOps == {"approveAsAgent", "approveAsBank", "approveAsHousingDept"}

\* The role address an approve operation is reserved to.
HolderOf(op) ==
    CASE op = "approveAsAgent" -> agent
      [] op = "approveAsBank" -> bank
      [] op = "approveAsHousingDept" -> housingDept

\* The flag an approve operation sets.
FlagOf(op) ==
    CASE op = "approveAsAgent" -> "agentApproved"
      [] op = "approveAsBank" -> "bankApproved"
      [] op = "approveAsHousingDept" -> "housingDeptApproved"

Flags == {"agentApproved", "bankApproved", "housingDeptApproved", "fullyApproved"}

\* How many entries of a log carry the given event name.
CountEvents(log, name) ==
    Cardinality({i \in 1..Len(log) : log[i].name = name})

\* The roles whose HouseApproved event is in the log of houseId.
RolesLogged(h) ==
    {govLog[h][i].role : i \in {j \in 1..Len(govLog[h]) :
                                   govLog[h][j].name = "HouseApproved"}}

AllRoles == {"Agent", "Bank", "HousingDept"}

\* The latest call was a mint submission whose public signal equals its
\* houseId argument and whose proof the verifier accepts.
ValidSubmission(c) ==
    /\ c.op = "mintHouseToken"
    /\ c.args.pubSignal = c.houseId
    /\ verifyProof(c.args.proof, <<c.args.pubSignal>>)

\* A recipient ERC1155._mint delivers to.
CanReceive(r) == r # ZeroAddress /\ r # RejectingContract

\* ------------------------------------------------------------------ claims

\* C1: cross-ledger consistency, only-if direction: whenever minted[houseId]
\* is true on the public ledger, fullyApproved[houseId] is true on the
\* permissioned ledger. The mint gate accepts any proof the verifier accepts,
\* and the prover makes one for any houseId from the witness (1, 1, houseId),
\* so a submitter mints a house no role has approved.
C1_MintedImpliesFullyApproved ==
    \A h \in HouseIds : minted[h] => approvals[h].fullyApproved

\* C2 as stated: every submission with a valid proof and a matching public
\* input either turns minted[houseId] from false to true or fails with
\* AlreadyMinted.
C2_EveryValidSubmissionMintsOrAlreadyMinted ==
    ValidSubmission(lastCall) => lastCall.err \in {"", "AlreadyMinted"}

\* C2, amended: at most one submission per houseId makes minted[houseId] go
\* from false to true (one HouseTokenMinted per minted houseId, none
\* otherwise); a submission with a valid proof and a matching public input
\* fails with AlreadyMinted and changes nothing when minted[houseId] is
\* already true, succeeds when it is false and the recipient can receive the
\* token, and otherwise fails with ERC1155InvalidReceiver and changes nothing.
C2_MintExactlyOnce ==
    /\ [](\A h \in HouseIds :
            Len(tokLog[h]) = (IF minted[h] THEN 1 ELSE 0))
    /\ [][ValidSubmission(lastCall') =>
            LET h == lastCall'.houseId IN
            IF minted[h]
            THEN lastCall'.err = "AlreadyMinted" /\ UNCHANGED tokVars
            ELSE IF CanReceive(lastCall'.args.recipient)
            THEN /\ lastCall'.err = ""
                 /\ minted' = [minted EXCEPT ![h] = TRUE]
                 /\ Len(tokLog'[h]) = 1
            ELSE /\ lastCall'.err = "ERC1155InvalidReceiver"
                 /\ UNCHANGED tokVars]_vars

\* C2 witness: a second valid submission for a minted houseId was answered
\* AlreadyMinted.
C2_SecondSubmissionRejected ==
    /\ ValidSubmission(lastCall)
    /\ lastCall.err = "AlreadyMinted"
    /\ Len(tokLog[lastCall.houseId]) = 1

\* C3: in every reachable state of the registry and for every houseId,
\* fullyApproved = (agentApproved /\ bankApproved /\ housingDeptApproved);
\* and once the three roles have each approved (in any order),
\* getApprovalState returns (true, true, true, true), as it returns the four
\* stored booleans in every case.
C3_FullyApprovedIsConjunction ==
    /\ \A h \in HouseIds :
          approvals[h].fullyApproved =
             (approvals[h].agentApproved /\ approvals[h].bankApproved
                /\ approvals[h].housingDeptApproved)
    /\ lastCall.op = "getApprovalState" =>
          /\ lastCall.ret = GetApprovalStateRet(lastCall.houseId)
          /\ RolesLogged(lastCall.houseId) = AllRoles =>
                lastCall.ret = <<TRUE, TRUE, TRUE, TRUE>>

\* C3 witness: getApprovalState answered (true, true, true, true) for a
\* houseId the housing department approved first and the agent last.
C3_AllTrueRead ==
    /\ lastCall.op = "getApprovalState"
    /\ lastCall.ret = <<TRUE, TRUE, TRUE, TRUE>>
    /\ Len(govLog[lastCall.houseId]) = 4
    /\ govLog[lastCall.houseId][1].role = "HousingDept"
    /\ govLog[lastCall.houseId][3].role = "Agent"

\* The error of an approve operation called by the role holder again.
AlreadyErrOf(op) ==
    CASE op = "approveAsAgent" -> "Agent already approved"
      [] op = "approveAsBank" -> "Bank already approved"
      [] op = "approveAsHousingDept" -> "HousingDept already approved"

\* The error of an approve operation called by anyone but the role holder.
NotRoleErrOf(op) ==
    CASE op = "approveAsAgent" -> "Not Agent"
      [] op = "approveAsBank" -> "Not Bank"
      [] op = "approveAsHousingDept" -> "Not HousingDept"

\* t extends s: nothing logged is ever taken back.
IsPrefix(s, t) == Len(s) <= Len(t) /\ SubSeq(t, 1, Len(s)) = s

\* C4: HouseFullyApproved(houseId) is emitted exactly once per houseId over
\* the lifetime of the registry: its log holds one such event once the three
\* roles have each approved (whatever the order, whatever failing repeat calls
\* came before or after), none before, and a logged event stays logged.
C4_FullyApprovedEmittedOnce ==
    /\ [](\A h \in HouseIds :
            CountEvents(govLog[h], "HouseFullyApproved") =
               (IF RolesLogged(h) = AllRoles THEN 1 ELSE 0))
    /\ [][\A h \in HouseIds : IsPrefix(govLog[h], govLog'[h])]_vars

\* C4 witness: a role holder's repeat approve failed after the houseId was
\* fully approved, and the log still holds one HouseFullyApproved.
C4_RepeatAfterFullyApproved ==
    /\ lastCall.op \in ApproveOps
    /\ lastCall.err = AlreadyErrOf(lastCall.op)
    /\ approvals[lastCall.houseId].fullyApproved
    /\ CountEvents(govLog[lastCall.houseId], "HouseFullyApproved") = 1

\* C5: monotonicity: for every houseId, none of the four booleans (the three
\* role flags and fullyApproved) ever changes from true to false, so each
\* changes from false to true at most once.
C5_FlagsNeverFall ==
    [][\A h \in HouseIds, f \in Flags :
          approvals[h][f] => approvals'[h][f]]_vars

\* C5 witness: registry calls went on after a houseId was fully approved
\* while the other houseId is part-way through its approvals.
C5_CallAfterFullyApproved ==
    \E h \in HouseIds, g \in HouseIds :
        /\ h # g
        /\ approvals[h].fullyApproved
        /\ approvals[g].bankApproved /\ ~approvals[g].fullyApproved
        /\ lastCall.op \in ApproveOps /\ lastCall.houseId = h

\* C6: idempotent approval: an approve call by the role holder when that
\* role's flag is already true fails with the role's already-approved error,
\* leaves the booleans of every houseId unchanged and logs no event.
C6_RepeatApprovalFails ==
    [][(/\ lastCall'.op \in ApproveOps
        /\ lastCall'.caller = HolderOf(lastCall'.op)
        /\ approvals[lastCall'.houseId][FlagOf(lastCall'.op)])
       => /\ lastCall'.err = AlreadyErrOf(lastCall'.op)
          /\ approvals' = approvals
          /\ govLog' = govLog]_vars

\* C6 witness: the bank approved a houseId and its second call was refused,
\* before the houseId was fully approved.
C6_BankRepeatRefused ==
    /\ lastCall.op = "approveAsBank"
    /\ lastCall.caller = bank
    /\ lastCall.err = "Bank already approved"
    /\ ~approvals[lastCall.houseId].fullyApproved

\* C7: role authorization: an approve call by any address other than the one
\* bound to the operation's role fails with the role's not-authorized error,
\* changes no flag of any houseId and logs no event; and a role's flag is set
\* only by a call of that role's operation from that role's address.
C7_OnlyRoleHolderApproves ==
    [][/\ (lastCall'.op \in ApproveOps
             /\ lastCall'.caller # HolderOf(lastCall'.op))
          => /\ lastCall'.err = NotRoleErrOf(lastCall'.op)
             /\ approvals' = approvals
             /\ govLog' = govLog
       /\ \A h \in HouseIds, op \in ApproveOps :
             (~approvals[h][FlagOf(op)] /\ approvals'[h][FlagOf(op)])
             => /\ lastCall'.op = op
                /\ lastCall'.houseId = h
                /\ lastCall'.caller = HolderOf(op)
                /\ lastCall'.err = ""]_vars

\* C7 witness: the agent, having approved a houseId, called approveAsBank for
\* it and was refused; the bank's flag is still false.
C7_AgentRefusedAsBank ==
    /\ lastCall.op = "approveAsBank"
    /\ lastCall.caller = agent
    /\ lastCall.err = "Not Bank"
    /\ approvals[lastCall.houseId].agentApproved
    /\ ~approvals[lastCall.houseId].bankApproved

\* C8: minted[houseId] is true only if a mintHouseToken call for that
\* houseId passed verifier.verifyProof with public input equal to houseId:
\* the flag rises only in the step of such a call (never in setURI, a
\* transfer or a failed mint), and a minted houseId's log holds the
\* HouseTokenMinted event with the digest of a proof accepted for it.
C8_MintedOnlyByVerifiedProof ==
    /\ [](\A h \in HouseIds :
            minted[h] =>
               \E i \in 1..Len(tokLog[h]), p \in SubmittableProofs :
                  /\ verifyProof(p, <<h>>)
                  /\ tokLog[h][i].proofHash = Keccak256(p))
    /\ [][\A h \in HouseIds :
            (~minted[h] /\ minted'[h])
            => /\ lastCall'.op = "mintHouseToken"
               /\ lastCall'.houseId = h
               /\ lastCall'.args.pubSignal = h
               /\ verifyProof(lastCall'.args.proof, <<h>>)
               /\ lastCall'.err = ""]_vars

\* C8 witness: a token was minted, then its holder moved it and the owner
\* changed the URI, while the other houseId stayed unminted.
C8_MintedThenOtherOperations ==
    \E h \in HouseIds, g \in HouseIds :
        /\ minted[h] /\ ~minted[g]
        /\ balances["bob"][h] = 1
        /\ tokLog[h][1].recipient = "alice"
        /\ uri # "ipfs://QmPlaceholderCID/{id}.json"

\* C9 as stated: a mintHouseToken call whose public signal differs from its
\* houseId argument is rejected with the mismatch error.
C9_MismatchAlwaysMismatchError ==
    (lastCall.op = "mintHouseToken" /\ lastCall.args.pubSignal # lastCall.houseId)
    => lastCall.err = "HouseToken: houseId mismatch"

\* C9, amended: a mintHouseToken call whose public signal differs from its
\* houseId argument is rejected whether or not the verifier would accept the
\* proof, with the mismatch error when houseId is not yet minted and with
\* AlreadyMinted when it is; minted, the balances, the log and the URI stay
\* unchanged.
C9_BindingSoundness ==
    [][(lastCall'.op = "mintHouseToken"
          /\ lastCall'.args.pubSignal # lastCall'.houseId)
       => /\ lastCall'.err = (IF minted[lastCall'.houseId]
                              THEN "AlreadyMinted"
                              ELSE "HouseToken: houseId mismatch")
          /\ UNCHANGED tokVars]_vars

\* C9 witness: a proof the verifier accepts for one houseId was submitted
\* for another, unminted, houseId and met the mismatch error.
C9_ValidProofForOtherHouse ==
    /\ lastCall.op = "mintHouseToken"
    /\ lastCall.args.pubSignal # lastCall.houseId
    /\ verifyProof(lastCall.args.proof, <<lastCall.args.pubSignal>>)
    /\ lastCall.err = "HouseToken: houseId mismatch"
    /\ ~minted[lastCall.houseId]

\* C10: a mintHouseToken call for a not-yet-minted houseId with a matching
\* public signal and a proof the verifier rejects fails with InvalidProof and
\* changes nothing (minted[houseId] stays false, no balance moves, no event);
\* and for every houseId that is not minted a submission with a valid proof
\* and a receiving recipient succeeds, so a later valid call still can.
C10_InvalidProofRejected ==
    /\ [][(/\ lastCall'.op = "mintHouseToken"
           /\ ~minted[lastCall'.houseId]
           /\ lastCall'.args.pubSignal = lastCall'.houseId
           /\ ~verifyProof(lastCall'.args.proof, <<lastCall'.args.pubSignal>>))
          => /\ lastCall'.err = "InvalidProof"
             /\ UNCHANGED tokVars]_vars
    /\ [](\A h \in HouseIds :
            ~minted[h] =>
               MintBody("relayer", h, Proof(h, TRUE), <<h>>, "alice").err = "")

\* C10 witness: a forged proof with a matching public signal was refused
\* with InvalidProof and the houseId is still not minted.
C10_ForgedProofRefused ==
    /\ lastCall.op = "mintHouseToken"
    /\ lastCall.args.pubSignal = lastCall.houseId
    /\ lastCall.args.proof = ForgedProof
    /\ lastCall.err = "InvalidProof"
    /\ ~minted[lastCall.houseId]
    /\ tokLog[lastCall.houseId] = <<>>

\* C11: minted[houseId] is monotonic on the public ledger: no operation of
\* the mint gate (mint submission, transfer, setURI) takes it from true back
\* to false, so it changes from false to true at most once.
C11_MintedMonotonic ==
    [][\A h \in HouseIds : minted[h] => minted'[h]]_vars

\* C11 witness: with every houseId minted, a further mint submission has run
\* on the gate.
C11_OperationAfterAllMinted ==
    /\ \A h \in HouseIds : minted[h]
    /\ lastCall.op = "mintHouseToken"
    /\ ~ValidSubmission(lastCall)

\* C12: a successful mintHouseToken(houseId, proof, [houseId], recipient)
\* leaves minted[houseId] true, raises balanceOf(recipient, houseId) by
\* exactly 1 (no other balance moves) and appends exactly one
\* HouseTokenMinted(houseId, recipient, keccak256(proof)); any submission for
\* a houseId that is already minted, the same one again included, fails with
\* AlreadyMinted.
C12_SuccessfulMintEffect ==
    /\ [][(lastCall'.op = "mintHouseToken" /\ lastCall'.err = "") =>
            LET h == lastCall'.houseId
                r == lastCall'.args.recipient
            IN  /\ ~minted[h] /\ minted'[h]
                /\ balances' = [balances EXCEPT ![r][h] = @ + 1]
                /\ tokLog' = [tokLog EXCEPT ![h] =
                       Append(@, HouseTokenMinted(h, r,
                                    Keccak256(lastCall'.args.proof)))]]_vars
    /\ [][(lastCall'.op = "mintHouseToken" /\ minted[lastCall'.houseId]) =>
            lastCall'.err = "AlreadyMinted"]_vars

\* C12 witness: a submission has just succeeded: the recipient holds one
\* unit and the log of the houseId holds its one event.
C12_MintJustSucceeded ==
    /\ lastCall.op = "mintHouseToken"
    /\ lastCall.err = ""
    /\ balances[lastCall.args.recipient][lastCall.houseId] = 1
    /\ tokLog[lastCall.houseId] =
         <<HouseTokenMinted(lastCall.houseId, lastCall.args.recipient,
                            Keccak256(lastCall.args.proof))>>

\* Sum of balanceOf(account, houseId) over all accounts.
TotalSupply(h) ==
    Cardinality(UNION {{a} \X (1..balances[a][h]) : a \in Accounts})

\* C13: at most one token unit per houseId: in every reachable state,
\* transfers included, the balances of a houseId sum to 1 if
\* minted[houseId] and to 0 otherwise.
C13_OneUnitPerHouse ==
    \A h \in HouseIds : TotalSupply(h) = (IF minted[h] THEN 1 ELSE 0)

\* C13 witness: the unit of a minted houseId has just moved to another
\* account.
C13_UnitTransferred ==
    /\ lastCall.op = "safeTransferFrom"
    /\ lastCall.err = ""
    /\ lastCall.args.from # lastCall.args.recipient
    /\ minted[lastCall.houseId]
    /\ balances[lastCall.args.recipient][lastCall.houseId] = 1

\* C14: call atomicity on both ledgers: a call of approveAsAgent,
\* approveAsBank, approveAsHousingDept or mintHouseToken that fails (not the
\* role holder, already approved, already minted, public input mismatch,
\* invalid proof, recipient rejection) leaves the whole state of both
\* contracts, their event logs included, exactly as it was.
C14_FailedCallsChangeNothing ==
    [][(/\ lastCall' # NoCall
        /\ lastCall'.op \in ApproveOps \cup {"mintHouseToken"}
        /\ lastCall'.err # "") =>
            UNCHANGED <<govVars, tokVars>>]_vars

\* C14 witness: a submission was refused by its recipient, after the flag
\* and the balance had been written, while the registry holds approvals:
\* nothing of it is left.
C14_RecipientRefusalRolledBack ==
    /\ lastCall.op = "mintHouseToken"
    /\ lastCall.err = "ERC1155InvalidReceiver"
    /\ lastCall.args.recipient = RejectingContract
    /\ ~minted[lastCall.houseId]
    /\ balances[RejectingContract][lastCall.houseId] = 0
    /\ tokLog[lastCall.houseId] = <<>>
    /\ govLog[lastCall.houseId] # <<>>

\* C15: end-to-end liveness: once the three roles have each approved a
\* houseId, and with the relayer, the prover and both ledgers kept running,
\* minted[houseId] is eventually true with the relayer's recipient holding
\* the unit. The gate mints for whoever submits first, to the recipient that
\* submission names: an outside account that submits before the relayer
\* takes the unit, the relayer's submission is answered AlreadyMinted (or
\* not sent), and the recipient's balance stays 0.
C15_ApprovedLeadsToRecipientHolding ==
    \A h \in BridgedHouses :
        approvals[h].fullyApproved ~>
            (minted[h] /\ balances[RelayerRecipient][h] = 1)

\* C17: circuit policy: over all input signals of the bounded field,
\* non-boolean ones included, the constraints are satisfiable, and fullProve
\* returns a proof, exactly when agentApproved = 1 and bankApproved = 1.
C17_ProofIffBothApproved ==
    LET both == witness.agentApproved = 1 /\ witness.bankApproved = 1 IN
    /\ CircuitSat(witness) <=> both
    /\ proofOut # NoProofOut => (proofOut.ok <=> both)

\* C17 witness: the prover has refused input signals that are not boolean
\* and whose product is 1 in the field.
C17_NonBooleanProductRefused ==
    /\ proofOut # NoProofOut
    /\ ~proofOut.ok
    /\ witness.agentApproved \notin {0, 1}
    /\ FMul(witness.agentApproved, witness.bankApproved) = 1

\* C18: saga idempotency under replay: however often HouseFullyApproved(h)
\* is delivered to the relayer, again to the same process or to one that has
\* crashed and restarted, at most one mint submission for h succeeds: the
\* log of h never holds more than one HouseTokenMinted, the balances of h sum
\* to that number, minted[h] says whether it is 1, and a relayer submission
\* that finds h minted is answered AlreadyMinted and changes nothing.
C18_ReplayMintsAtMostOnce ==
    /\ [](\A h \in BridgedHouses :
            /\ Len(tokLog[h]) <= 1
            /\ TotalSupply(h) = Len(tokLog[h])
            /\ minted[h] <=> Len(tokLog[h]) = 1)
    /\ [][(/\ lastCall'.op = "mintHouseToken"
           /\ lastCall'.caller = "relayer"
           /\ minted[lastCall'.houseId]) =>
               (lastCall'.err = "AlreadyMinted" /\ UNCHANGED tokVars)]_vars

\* C18 witness: the notification has been delivered at least twice and the
\* relayer is in a pass that found the houseId minted by its own earlier
\* submission (made before a restart), with one unit and one event.
C18_ReplayedAfterOwnMint ==
    \E h \in BridgedHouses :
        /\ delivered[h] >= 2
        /\ relayer[h].state = "Confirmed"
        /\ relayer[h].isMinted = "true"
        /\ tokLog[h] = <<HouseTokenMinted(h, RelayerRecipient,
                                          Keccak256(relayer[h].proof))>>
        /\ balances[RelayerRecipient][h] = 1

\* C19: a delivery of HouseFullyApproved(h) while the relayer's state for h
\* is past Idle is a no-op: state, attempt count, proof held and isMinted
\* read of h stay as they are, and nothing is sent to either ledger.
C19_DuplicateDeliveryIsNoOp ==
    [][\A h \in BridgedHouses :
          (delivered'[h] = delivered[h] + 1 /\ relayer[h].state # "Idle") =>
              /\ relayer' = relayer
              /\ UNCHANGED <<govVars, tokVars, lastCall>>]_vars

\* C19 witness: a second delivery has arrived and the relayer still holds
\* the proof of its pass, one failed attempt counted, ahead of a submission.
C19_DeliveredTwiceMidPass ==
    \E h \in BridgedHouses :
        /\ delivered[h] >= 2
        /\ relayer[h].state = "Submitting"
        /\ relayer[h].attempts = 1
        /\ relayer[h].proof = fullProve(RelayerWitness(h)).proof

\* C20: the relayer sends a mint submission only from Submitting, after its
\* isMinted read of this pass has returned false, with the proof it holds;
\* the read records what the gate holds at that moment; and a read that
\* returned true ends the pass in Confirmed, so that nothing is sent.
C20_SubmissionOnlyAfterIsMintedFalse ==
    /\ [][(lastCall'.op = "mintHouseToken" /\ lastCall'.caller = "relayer") =>
            LET h == lastCall'.houseId IN
            /\ relayer[h].state = "Submitting"
            /\ relayer[h].isMinted = "false"
            /\ relayer[h].proof = lastCall'.args.proof]_vars
    /\ [][\A h \in BridgedHouses :
            (relayer[h].isMinted = "unread" /\ relayer'[h].isMinted # "unread") =>
              relayer'[h].isMinted = (IF minted[h] THEN "true" ELSE "false")]_vars
    /\ [](\A h \in BridgedHouses :
            relayer[h].isMinted = "true" => relayer[h].state = "Confirmed")

\* C20 witness: the relayer read isMinted while an outside account's mint
\* stood, and ended its pass without a submission of its own.
C20_ReadTrueNothingSent ==
    \E h \in BridgedHouses :
        /\ relayer[h].state = "Confirmed"
        /\ relayer[h].isMinted = "true"
        /\ Len(tokLog[h]) = 1
        /\ tokLog[h][1].recipient # RelayerRecipient

\* The relayer's own mint submission for h is the call this step made.
RelayerSubmitted(h) ==
    /\ lastCall' # lastCall
    /\ lastCall'.op = "mintHouseToken"
    /\ lastCall'.caller = "relayer"
    /\ lastCall'.houseId = h

\* C21: when the gate answers the relayer's submission AlreadyMinted, the
\* relayer's state for the houseId goes straight to Confirmed, and from
\* Confirmed it never goes to Failed; when the gate answers InvalidProof or
\* the public input mismatch, the state goes to Failed with that reason, and
\* from Failed the relayer changes nothing for the houseId and sends no
\* further submission (only a restart of the process forgets the state).
C21_RejectionsHandled ==
    [][\A h \in BridgedHouses :
          /\ RelayerSubmitted(h) =>
               /\ lastCall'.err = "AlreadyMinted" =>
                     relayer'[h].state = "Confirmed"
               /\ lastCall'.err = "InvalidProof" =>
                     /\ relayer'[h].state = "Failed"
                     /\ relayer'[h].reason = "InvalidProof"
               /\ lastCall'.err = "HouseToken: houseId mismatch" =>
                     /\ relayer'[h].state = "Failed"
                     /\ relayer'[h].reason = "PublicInputMismatch"
          /\ relayer[h].state \in {"Confirmed", "Failed"} =>
               /\ relayer'[h] \in {relayer[h], RelayerIdle}
               /\ ~RelayerSubmitted(h)]_vars

\* C21 witness: the relayer read isMinted as false, an outside account
\* minted, and the relayer's submission was answered AlreadyMinted: it is
\* Confirmed.
C21_AlreadyMintedTakenAsSuccess ==
    \E h \in BridgedHouses :
        /\ lastCall.op = "mintHouseToken"
        /\ lastCall.caller = "relayer"
        /\ lastCall.houseId = h
        /\ lastCall.err = "AlreadyMinted"
        /\ relayer[h].state = "Confirmed"
        /\ relayer[h].isMinted = "false"

\* The states a relayer state may be entered from, a restart aside.
EnteredFrom(state) ==
    CASE state = "Idle" -> {}
      [] state = "Notified" -> {"Idle"}
      [] state = "Proving" -> {"Notified"}
      [] state = "Submitting" -> {"Proving"}
      [] state = "Confirming" -> {"Submitting"}
      [] state = "Confirmed" -> {"Submitting", "Confirming"}
      [] state = "Failed" -> {"Proving", "Submitting", "Confirming"}

\* C22: per houseId the relayer's steps are sequential, in the order Idle,
\* Notified, Proving, Submitting, Confirming, Confirmed: a state is entered
\* only from the one before it (Confirmed also straight from Submitting), or
\* left for Idle by a restart; the relayer is past Idle only after a
\* delivery of the HouseFullyApproved the registry emitted; a submission is
\* sent only with a proof and public signals from the prover in hand; and
\* Confirmed is entered only with minted[houseId] true on the public ledger,
\* by a read or a poll that saw it or by the gate's AlreadyMinted.
C22_RelayerStepsSequential ==
    /\ [][\A h \in BridgedHouses :
            /\ relayer'[h].state # relayer[h].state =>
                 \/ relayer[h].state \in EnteredFrom(relayer'[h].state)
                 \/ relayer'[h] = RelayerIdle
            /\ RelayerSubmitted(h) =>
                 /\ relayer[h].pubSignals # <<>>
                 /\ lastCall'.args.proof = relayer[h].proof
                 /\ lastCall'.args.pubSignal = relayer[h].pubSignals[1]
            /\ (relayer'[h].state = "Confirmed" /\ relayer[h].state # "Confirmed") =>
                 (minted[h] /\ minted'[h])]_vars
    /\ [](\A h \in BridgedHouses :
            relayer[h].state # "Idle" =>
                (delivered[h] >= 1 /\ FullyApprovedEmitted(h)))
    /\ [](\A h \in BridgedHouses :
            relayer[h].state \in {"Submitting", "Confirming", "Confirmed"} =>
                relayer[h].pubSignals # <<>>)

\* C22 witness: the relayer's own submission has just been accepted: it is
\* Confirming, on the way from Submitting to Confirmed.
C22_OwnSubmissionAccepted ==
    \E h \in BridgedHouses :
        /\ lastCall.op = "mintHouseToken"
        /\ lastCall.caller = "relayer"
        /\ lastCall.err = ""
        /\ relayer[h].state = "Confirming"
        /\ minted[h]
        /\ balances[RelayerRecipient][h] = 1

\* C23 as stated: the relayer's Failed state is entered only from Proving and
\* from Submitting.
C23_FailedOnlyFromProvingOrSubmitting ==
    [][\A h \in BridgedHouses :
          (relayer'[h].state = "Failed" /\ relayer[h].state # "Failed") =>
              relayer[h].state \in {"Proving", "Submitting"}]_vars

\* C23, amended: Failed is entered only from Proving (the retry budget is
\* spent: ProofGenerationFailed), from Submitting (the gate rejected the
\* submission with something other than AlreadyMinted) and from Confirming
\* (the poll's timeout elapsed: MintNotObserved); never from Idle, Notified
\* or Confirmed.
C23_FailedEnteredFromThreeStates ==
    [][\A h \in BridgedHouses :
          (relayer'[h].state = "Failed" /\ relayer[h].state # "Failed") =>
              \/ /\ relayer[h].state = "Proving"
                 /\ relayer'[h].reason = "ProofGenerationFailed"
              \/ /\ relayer[h].state = "Submitting"
                 /\ RelayerSubmitted(h)
                 /\ lastCall'.err \notin {"", "AlreadyMinted"}
              \/ /\ relayer[h].state = "Confirming"
                 /\ relayer'[h].reason = "MintNotObserved"]_vars

\* C23 witness: the relayer's submission was accepted and the houseId is
\* minted, yet the poll timed out: Failed(MintNotObserved), from Confirming.
C23_FailedFromConfirming ==
    \E h \in BridgedHouses :
        /\ relayer[h].state = "Failed"
        /\ relayer[h].reason = "MintNotObserved"
        /\ minted[h]
        /\ balances[RelayerRecipient][h] = 1

\* C24: the confirmation poll always terminates: once started it ends, with
\* success as soon as a poll finds the recipient's balance of the houseId
\* above 0 and never without such a poll, and otherwise with "Mint not
\* detected" once the clock has reached the deadline and not before; polls
\* are at least one interval apart and none is made at or after the
\* deadline, so there are no more of them than intervals in the timeout.
C24_WaitForMintTerminates ==
    /\ (flow.pc = "loop") ~> (flow.pc \in {"returned", "thrown"})
    /\ [][/\ (flow'.pc = "returned" /\ flow.pc # "returned") =>
                 (flow.pc = "poll" /\ balances[RelayerRecipient][HOUSE_ID] > 0)
          /\ (flow.pc = "poll" /\ flow'.pc # "poll") =>
                 (flow'.pc = "returned" <=>
                      balances[RelayerRecipient][HOUSE_ID] > 0)
          /\ (flow'.pc = "thrown" /\ flow.pc # "thrown") =>
                 flow.now >= flow.deadline
          /\ (flow'.pc = "poll" /\ flow.pc # "poll") =>
                 flow.now < flow.deadline
          /\ flow.pc = "sleep" => (flow' = flow \/ flow'.now > flow.now)
          /\ flow.pc \in {"returned", "thrown"} => flow' = flow]_vars

\* C24 witness: the wait has ended with "Mint not detected" after polls that
\* found no balance, the clock past a deadline that was not immediate.
C24_TimedOutAfterPolling ==
    /\ flow.pc = "thrown"
    /\ flow.deadline > 0
    /\ flow.now >= flow.deadline
    /\ balances[RelayerRecipient][HOUSE_ID] = 0

\* C25: proof generation is retried a bounded number of times: for every
\* houseId the relayer's count of failed prove attempts never exceeds
\* RetryBudget, the prover is called only while the count is below it, the
\* count moves only by one failed attempt at a time; and once the budget is
\* spent the state is Failed(ProofGenerationFailed), from which the relayer
\* makes no further attempt and sends no submission (only a restart of the
\* process forgets the state).
C25_ProofRetriesBounded ==
    /\ [](\A h \in BridgedHouses :
            /\ relayer[h].attempts <= RetryBudget
            /\ relayer[h].state = "Proving" => relayer[h].attempts < RetryBudget
            /\ relayer[h].attempts = RetryBudget =>
                 (/\ relayer[h].state = "Failed"
                  /\ relayer[h].reason = "ProofGenerationFailed"))
    /\ [][\A h \in BridgedHouses :
            /\ relayer'[h].attempts # relayer[h].attempts =>
                 \/ /\ relayer[h].state = "Proving"
                    /\ relayer'[h].attempts = relayer[h].attempts + 1
                 \/ relayer'[h] = RelayerIdle
            /\ (/\ relayer[h].state = "Failed"
                /\ relayer[h].reason = "ProofGenerationFailed") =>
                 /\ relayer'[h] \in {relayer[h], RelayerIdle}
                 /\ ~RelayerSubmitted(h)]_vars

\* C25 witness: the budget is spent: Failed(ProofGenerationFailed), no proof
\* in hand, nothing minted for the houseId.
C25_BudgetSpent ==
    \E h \in BridgedHouses :
        /\ relayer[h].state = "Failed"
        /\ relayer[h].reason = "ProofGenerationFailed"
        /\ relayer[h].attempts = RetryBudget
        /\ relayer[h].pubSignals = <<>>
        /\ ~minted[h]

\* C26: getApprovalState(houseId) is a pure read: it does not fail, changes
\* no state of either contract and emits nothing, and returns exactly the
\* four stored booleans, which are (false, false, false, false) for a
\* houseId that never received an approval.
C26_GetApprovalStateIsPureRead ==
    [][(lastCall' # lastCall /\ lastCall'.op = "getApprovalState") =>
          LET h == lastCall'.houseId IN
          /\ lastCall'.err = ""
          /\ UNCHANGED <<govVars, tokVars>>
          /\ lastCall'.ret[1] = approvals[h].agentApproved
          /\ lastCall'.ret[2] = approvals[h].bankApproved
          /\ lastCall'.ret[3] = approvals[h].housingDeptApproved
          /\ lastCall'.ret[4] = approvals[h].fullyApproved
          /\ Len(lastCall'.ret) = 4
          /\ govLog[h] = <<>> =>
                lastCall'.ret = <<FALSE, FALSE, FALSE, FALSE>>]_vars

\* C26 witness: a houseId without any approval was read, all false, while
\* another houseId holds the agent's and the bank's approvals only.
C26_UnapprovedHouseRead ==
    /\ lastCall.op = "getApprovalState"
    /\ lastCall.ret = <<FALSE, FALSE, FALSE, FALSE>>
    /\ govLog[lastCall.houseId] = <<>>
    /\ \E k \in HouseIds :
          /\ approvals[k].agentApproved
          /\ approvals[k].bankApproved
          /\ ~approvals[k].housingDeptApproved

\* ------------------------------------------------------------------- C27

\* C27: the three role addresses are fixed at construction: no operation
\* reassigns agent, bank or housingDept, so after any sequence of operations
\* they are still the addresses the constructor was given.
C27_RolesNeverReassigned ==
    [][agent' = agent /\ bank' = bank /\ housingDept' = housingDept]_vars

\* C27 witness: a registry deployed with one address in two roles, after the
\* three approve operations have all succeeded for a house.
C27_ApprovedUnderSharedRoles ==
    /\ agent = "validator2"
    /\ bank = "validator2"
    /\ housingDept = "validator3"
    /\ \E h \in HouseIds : approvals[h].fullyApproved
    /\ lastCall.op = "approveAsAgent"
    /\ lastCall.err = ""

\* ------------------------------------------------------------------- C28

\* The callers whose approval calls for houseId h have succeeded.
Approvers(h) ==
    {govLog[h][i].approver :
        i \in {j \in 1..Len(govLog[h]) : govLog[h][j].name = "HouseApproved"}}

\* C28: fullyApproved[h] is true only after successful approval calls by
\* three pairwise distinct caller addresses.
C28_FullApprovalByThreeParties ==
    \A h \in HouseIds :
        approvals[h].fullyApproved => Cardinality(Approvers(h)) = 3

\* ------------------------------------------------------------------- C29

\* C29: mintHouseToken checks already-minted first, the public signal second
\* and the verifier third. A call for a minted houseId fails with
\* AlreadyMinted whatever its public signal and proof; a call for an unminted
\* houseId whose public signal differs fails with the mismatch error whatever
\* its proof, so InvalidProof is only ever the answer to a call for an
\* unminted houseId with a matching public signal.
C29_MintGuardOrder ==
    [][lastCall'.op = "mintHouseToken"
       => LET c == lastCall' IN
          /\ minted[c.houseId] => c.err = "AlreadyMinted"
          /\ (~minted[c.houseId] /\ c.args.pubSignal # c.houseId)
                => c.err = "HouseToken: houseId mismatch"
          /\ c.err = "InvalidProof"
                => /\ ~minted[c.houseId]
                   /\ c.args.pubSignal = c.houseId
                   /\ ~verifyProof(c.args.proof, <<c.args.pubSignal>>)
          /\ c.err \in {"AlreadyMinted", "HouseToken: houseId mismatch",
                        "InvalidProof"} => UNCHANGED tokVars]_vars

\* C29 witness: a call for a minted houseId, with a public signal for another
\* houseId and a forged proof, was answered with AlreadyMinted.
C29_MintedIdWithBadSignalAndProof ==
    /\ lastCall.op = "mintHouseToken"
    /\ minted[lastCall.houseId]
    /\ lastCall.args.pubSignal # lastCall.houseId
    /\ lastCall.args.proof = ForgedProof
    /\ lastCall.err = "AlreadyMinted"

\* ------------------------------------------------------------------- C30

\* C30: in each approve operation the authorization check comes before the
\* already-approved check: a caller who does not hold the role is answered
\* with the role's not-authorized error whether or not the role's flag for
\* that houseId is already true, and the already-approved error only ever
\* goes to the role holder.
C30_AuthorizationBeforeAlreadyApproved ==
    [][lastCall'.op \in ApproveOps
       => LET c == lastCall' IN
          /\ c.caller # HolderOf(c.op) => c.err = NotRoleErrOf(c.op)
          /\ c.err = AlreadyErrOf(c.op)
                => /\ c.caller = HolderOf(c.op)
                   /\ approvals[c.houseId][FlagOf(c.op)]]_vars

\* C30 witness: an account that does not hold the role called an approve
\* operation whose flag was already true and got the not-authorized error.
C30_NonHolderOnApprovedFlag ==
    /\ lastCall.op \in ApproveOps
    /\ lastCall.caller # HolderOf(lastCall.op)
    /\ approvals[lastCall.houseId][FlagOf(lastCall.op)]
    /\ lastCall.err = NotRoleErrOf(lastCall.op)

\* ------------------------------------------------------------------- C31

\* The role string an approve operation puts in its HouseApproved event.
RoleOf(op) ==
    CASE op = "approveAsAgent" -> "Agent"
      [] op = "approveAsBank" -> "Bank"
      [] op = "approveAsHousingDept" -> "HousingDept"

\* The HouseApproved events of a log, in order.
ApprovedEvents(log) == SelectSeq(log, LAMBDA e : e.name = "HouseApproved")

\* C31: a successful approve call adds exactly one HouseApproved(houseId,
\* approver, role) to the log, with approver the caller and role the role of
\* the function called; a failing call adds none; hence the log of a houseId
\* holds at most one HouseApproved per role and at most three in all.
C31_HouseApprovedOncePerSuccess ==
    /\ [][lastCall'.op \in ApproveOps
          => LET c == lastCall' IN
             \A h \in HouseIds :
                ApprovedEvents(govLog'[h]) =
                   (IF c.err = "" /\ h = c.houseId
                    THEN Append(ApprovedEvents(govLog[h]),
                                HouseApproved(h, c.caller, RoleOf(c.op)))
                    ELSE ApprovedEvents(govLog[h]))]_vars
    /\ [](\A h \in HouseIds :
            /\ \A r \in AllRoles :
                  Cardinality({i \in 1..Len(govLog[h]) :
                                  /\ govLog[h][i].name = "HouseApproved"
                                  /\ govLog[h][i].role = r}) <= 1
            /\ CountEvents(govLog[h], "HouseApproved") <= 3)

\* C31 witness: the third approve call for a houseId has just succeeded, with
\* three HouseApproved events in its log, while another houseId has one.
C31_ThreeApprovalsLogged ==
    \E h \in HouseIds, g \in HouseIds :
        /\ lastCall.op \in ApproveOps
        /\ lastCall.houseId = h
        /\ lastCall.err = ""
        /\ CountEvents(govLog[h], "HouseApproved") = 3
        /\ g # h
        /\ CountEvents(govLog[g], "HouseApproved") = 1

\* ------------------------------------------------------------------- C32

\* C32: HouseFullyApproved(houseId) is emitted by the call that makes the
\* third successful approval, right after that call's HouseApproved event:
\* the call appends the two events in that order, and in the log of houseId
\* the HouseFullyApproved entry is the fourth, behind exactly three
\* HouseApproved entries, one per role.
C32_FullyApprovedFollowsThirdApproval ==
    /\ [][\A h \in HouseIds :
            CountEvents(govLog'[h], "HouseFullyApproved")
               > CountEvents(govLog[h], "HouseFullyApproved")
            => /\ lastCall'.op \in ApproveOps
               /\ lastCall'.houseId = h
               /\ lastCall'.err = ""
               /\ Len(ApprovedEvents(govLog[h])) = 2
               /\ govLog'[h] = govLog[h] \o
                     <<HouseApproved(h, lastCall'.caller, RoleOf(lastCall'.op)),
                       HouseFullyApproved(h)>>]_vars
    /\ [](\A h \in HouseIds : \A i \in 1..Len(govLog[h]) :
            govLog[h][i].name = "HouseFullyApproved"
            => /\ i = 4
               /\ \A j \in 1..3 : govLog[h][j].name = "HouseApproved"
               /\ {govLog[h][j].role : j \in 1..3} = AllRoles)

\* C32 witness: the agent's approval came last and completed the set; its
\* HouseApproved is the third entry of the log and HouseFullyApproved the
\* fourth.
C32_AgentCompletesTheSet ==
    \E h \in HouseIds :
        /\ lastCall.op = "approveAsAgent"
        /\ lastCall.houseId = h
        /\ lastCall.err = ""
        /\ Len(govLog[h]) = 4
        /\ govLog[h][3] = HouseApproved(h, agent, "Agent")
        /\ govLog[h][4] = HouseFullyApproved(h)

\* ------------------------------------------------------------------- C33

\* C33: frame of a successful approve: approveAsX(houseId) sets the flag of
\* role X for that houseId, sets fullyApproved for it exactly when the three
\* role flags are then all true, leaves the other two role flags of that
\* houseId as they were, and leaves the four booleans of every other houseId
\* unchanged.
C33_ApproveFrame ==
    [][(lastCall'.op \in ApproveOps /\ lastCall'.err = "")
       => LET c == lastCall'
              f == FlagOf(c.op)
              h == c.houseId
          IN  /\ ~approvals[h][f] /\ approvals'[h][f]
              /\ \A g \in Flags \ {f, "fullyApproved"} :
                    approvals'[h][g] = approvals[h][g]
              /\ approvals'[h].fullyApproved =
                    (approvals[h].fullyApproved
                       \/ \A g \in Flags \ {"fullyApproved"} : approvals'[h][g])
              /\ \A k \in HouseIds \ {h} : approvals'[k] = approvals[k]]_vars

\* C33 witness: the bank approved a houseId the agent had already approved,
\* while another houseId carries a different set of flags.
C33_BankApprovedBesideOtherHouse ==
    \E h \in HouseIds, k \in HouseIds :
        /\ h # k
        /\ lastCall.op = "approveAsBank"
        /\ lastCall.houseId = h
        /\ lastCall.err = ""
        /\ approvals[h].agentApproved
        /\ ~approvals[h].housingDeptApproved
        /\ approvals[k].housingDeptApproved
        /\ ~approvals[k].bankApproved

\* ------------------------------------------------------------------- C34

\* C34: re-entrancy safety of the mint: minted[houseId] is set before the
\* token is delivered, so the mintHouseToken call a recipient contract makes
\* for the same houseId from its receive callback fails with AlreadyMinted,
\* the delivering call mints its one unit to that contract, and the supply of
\* a houseId is never more than 1.
C34_ReentrantMintRefused ==
    /\ [][(lastCall'.op = "mintHouseToken" /\ lastCall'.err = ""
             /\ lastCall'.args.recipient = ReenteringContract)
          => /\ lastCall'.inner = <<"AlreadyMinted">>
             /\ balances'[ReenteringContract][lastCall'.houseId] = 1
             /\ Len(tokLog'[lastCall'.houseId]) = 1]_vars
    /\ [](\A h \in HouseIds : TotalSupply(h) <= 1)

\* C34 witness: a mint to the re-entering contract has just succeeded and the
\* call made from the callback was refused.
C34_CallbackRefused ==
    /\ lastCall.op = "mintHouseToken"
    /\ lastCall.err = ""
    /\ lastCall.args.recipient = ReenteringContract
    /\ lastCall.inner = <<"AlreadyMinted">>
    /\ minted[lastCall.houseId]
    /\ TotalSupply(lastCall.houseId) = 1

\* ------------------------------------------------------------------- C35

\* C35: the holder at mint time is fixed by the first successful submission:
\* a submission for an unminted houseId with a matching public signal and a
\* proof the verifier accepts succeeds for whichever caller sends it and
\* whichever receiving recipient it names, and credits that recipient with
\* the one unit; once minted[houseId] is true, no mintHouseToken call, with
\* the same or another recipient, changes a balance of houseId or the
\* recipient logged at mint time.
C35_FirstSubmissionFixesHolder ==
    [][lastCall'.op = "mintHouseToken"
       => LET c == lastCall'
              h == c.houseId
          IN  /\ (~minted[h] /\ ValidSubmission(c) /\ CanReceive(c.args.recipient))
                    => /\ c.err = ""
                       /\ balances'[c.args.recipient][h] = 1
                       /\ tokLog'[h][1].recipient = c.args.recipient
              /\ minted[h]
                    => /\ c.err # ""
                       /\ \A a \in Accounts : balances'[a][h] = balances[a][h]
                       /\ tokLog'[h] = tokLog[h]]_vars

\* C35 witness: after a houseId was minted to one account, a submission
\* acceptable in itself named another account and moved nothing.
C35_LaterSubmissionForOtherRecipient ==
    LET h == lastCall.houseId IN
    /\ ValidSubmission(lastCall)
    /\ CanReceive(lastCall.args.recipient)
    /\ lastCall.caller = "outsider"
    /\ lastCall.err = "AlreadyMinted"
    /\ tokLog[h][1].recipient # lastCall.args.recipient
    /\ balances[tokLog[h][1].recipient][h] = 1
    /\ balances[lastCall.args.recipient][h] = 0

\* ------------------------------------------------------------------- C36

\* C36: a mint submission for an unminted houseId with a matching public
\* signal and a proof the verifier accepts, whose recipient is the zero
\* address or a contract that refuses the token, fails as a whole with
\* ERC1155InvalidReceiver: the ledger is unchanged, minted[houseId] stays
\* false and the supply of houseId stays 0; and in the state this leaves, the
\* same submission naming an account that can receive succeeds and mints.
C36_UnreceivableRecipientFailsWhole ==
    /\ [][(ValidSubmission(lastCall') /\ ~minted[lastCall'.houseId]
             /\ ~CanReceive(lastCall'.args.recipient))
          => /\ lastCall'.err = "ERC1155InvalidReceiver"
             /\ UNCHANGED tokVars]_vars
    /\ [](lastCall.err = "ERC1155InvalidReceiver" /\ lastCall.op = "mintHouseToken"
          => LET h == lastCall.houseId
                 again == MintBody(lastCall.caller, h, lastCall.args.proof,
                                   <<lastCall.args.pubSignal>>, "alice")
             IN  /\ ~minted[h]
                 /\ TotalSupply(h) = 0
                 /\ again.err = ""
                 /\ again.st.minted[h]
                 /\ again.st.balances["alice"][h] = 1)

\* C36 witness: a submission the verifier accepts named the zero address for
\* an unminted houseId and was refused, while the other houseId is minted.
C36_ZeroAddressRefused ==
    \E g \in HouseIds :
        /\ ValidSubmission(lastCall)
        /\ lastCall.args.recipient = ZeroAddress
        /\ lastCall.err = "ERC1155InvalidReceiver"
        /\ ~minted[lastCall.houseId]
        /\ g # lastCall.houseId
        /\ minted[g]

\* ------------------------------------------------------------------- C37

\* C37: satisfiability of the circuit depends neither on the public houseId
\* nor on the housing department's approval: for every houseId, whatever the
\* registry holds for it, the input signals (agentApproved = 1,
\* bankApproved = 1, houseId) satisfy all constraints, the prover returns a
\* proof for them, and the mint gate accepts that proof for an unminted
\* houseId and a receiving recipient.
C37_ConstantWitnessSatisfiesForEveryHouse ==
    [][\A h \in HouseIds :
          LET w == [agentApproved |-> 1, bankApproved |-> 1, houseId |-> h]
              r == fullProve(w)
              c == lastCall'
          IN  (/\ c.op = "mintHouseToken"
               /\ c.houseId = h
               /\ c.args.pubSignal = h
               /\ c.args.proof = r.proof
               /\ ~minted[h]
               /\ CanReceive(c.args.recipient))
              => /\ CircuitSat(w)
                 /\ r.ok
                 /\ r.pubSignals = <<h>>
                 /\ c.err = ""
                 /\ minted'[h]]_vars

\* C37 witness: the proof made from (1, 1, houseId) was accepted by the mint
\* gate for a houseId the housing department has not approved, while the
\* other houseId is fully approved.
C37_ProofAcceptedWithoutHousingDept ==
    \E g \in HouseIds :
        LET h == lastCall.houseId IN
        /\ lastCall.op = "mintHouseToken"
        /\ lastCall.err = ""
        /\ lastCall.args.proof =
              fullProve([agentApproved |-> 1, bankApproved |-> 1, houseId |-> h]).proof
        /\ approvals[h].agentApproved
        /\ ~approvals[h].housingDeptApproved
        /\ ~approvals[h].fullyApproved
        /\ g # h
        /\ approvals[g].fullyApproved

\* ------------------------------------------------------------------- C38

\* The keys each deploy script writes.
GovernanceKeys == {"governance", "quorumRpcUrl"}

PublicKeys == {"network", "verifier", "houseToken", "deployedAt"}

\* The keys of new whose value is not the one old has for them.
Rewritten(old, new) ==
    {k \in DOMAIN new : k \notin DOMAIN old \/ new[k] # old[k]}

\* C38: deployment record merge: a run of either deploy script keeps every
\* key of the record it does not own (deploy-governance keeps verifier and
\* houseToken, the public deploy keeps governance), so once a contract has
\* been deployed, however the runs of the two scripts follow each other, the
\* record holds the address of its latest deployment.
C38_RecordMergeKeepsOtherKeys ==
    /\ [][/\ DOMAIN deployedJson.json \subseteq DOMAIN deployedJson'.json
          /\ \/ Rewritten(deployedJson.json, deployedJson'.json) \subseteq GovernanceKeys
             \/ Rewritten(deployedJson.json, deployedJson'.json) \subseteq PublicKeys]_vars
    /\ [](\A c \in {"governance", "verifier", "houseToken"} :
            deployments[c] # 0
            => /\ deployedJson.exists
               /\ c \in DOMAIN deployedJson.json
               /\ deployedJson.json[c] = deployments[c])

\* C38 witness: the registry was deployed, then the public contracts, then
\* the registry again at another address; the record holds all six keys.
C38_RegistryRedeployedLast ==
    /\ deployments.clock = 3
    /\ DOMAIN deployedJson.json = GovernanceKeys \cup PublicKeys
    /\ deployedJson.json["deployedAt"] = 2
    /\ deployedJson.json["governance"] = 2
    /\ deployedJson.json["verifier"] = 1
    /\ deployedJson.json["houseToken"] = 3

\* ------------------------------------------------------------------- C39

AllApprovalsInOrder == <<"approveAsAgent", "approveAsBank", "approveAsHousingDept">>

\* C39: re-run idempotency of the end-to-end flow: when minted(HOUSE_ID) is
\* true at the start, the flow reports success and has sent no approval
\* transaction; when it is false, the flow sends the approvals in the order
\* Agent, Bank, HousingDept, each from its role's signer for HOUSE_ID and
\* only once every earlier one is confirmed (a reverted one fails the flow and
\* nothing more is sent); and it goes on to wait for the mint only if
\* fullyApproved is then true, failing otherwise.
C39_RerunIdempotentFlow ==
    /\ [][/\ (run.pc = "idle" /\ run'.pc # "idle")
                => run' = RunState(IF minted[HOUSE_ID] THEN "passed" ELSE "agent",
                                   <<>>, "")
          /\ run'.sent # run.sent /\ run'.sent # <<>>
                => LET n == Len(run'.sent) IN
                   /\ run.sent = SubSeq(AllApprovalsInOrder, 1, n - 1)
                   /\ run'.sent = SubSeq(AllApprovalsInOrder, 1, n)
                   /\ run.pending = ""
                   /\ \A i \in 1..(n - 1) :
                         approvals[HOUSE_ID][FlagOf(AllApprovalsInOrder[i])]
                   /\ lastCall'.op = AllApprovalsInOrder[n]
                   /\ lastCall'.houseId = HOUSE_ID
                   /\ lastCall'.caller = HolderOf(lastCall'.op)
                   /\ run'.pending = lastCall'.err
          /\ (run.pending # "" /\ run'.pc # run.pc)
                => run'.pc \in {"failed", "idle"}
          /\ (run.pc = "verify" /\ run'.pc # "verify")
                => run'.pc = (IF approvals[HOUSE_ID].fullyApproved
                              THEN "waitForMint" ELSE "failed")]_vars
    /\ [](/\ IsPrefix(run.sent, AllApprovalsInOrder)
          /\ run.pc = "passed" => run.sent = <<>>
          /\ run.pc = "waitForMint"
                => /\ run.sent = AllApprovalsInOrder
                   /\ approvals[HOUSE_ID].fullyApproved)

\* C39 witness: run again after its three approvals went through and
\* HOUSE_ID was minted, the flow has reported success without sending any.
C39_RerunAfterMintPasses ==
    /\ run.pc = "passed"
    /\ run.sent = <<>>
    /\ minted[HOUSE_ID]
    /\ approvals[HOUSE_ID].fullyApproved
    /\ Approvers(HOUSE_ID) = {AgentSigner, BankSigner, HousingSigner}

====
